---- MODULE Spec2Model ----
(***************************************************************************)
(* Model of the foodie-backend domain orchestration layer.                 *)
(*                                                                         *)
(* The persistent state is the two relational tables behind the            *)
(* repositories (products, shopping_items).  Every use case is a           *)
(* sequence of steps separated by the repository calls it awaits; a        *)
(* repository call takes effect (or fails) atomically in the step that     *)
(* completes it.                                                           *)
(***************************************************************************)
EXTENDS Integers, Sequences, FiniteSets, TLC

(***************************************************************************)
(* Bounds of the model                                                     *)
(***************************************************************************)
\* Utc::now() returns a value in 1..MaxTime (stored rows start at time 0)
MaxTime == 1
\* Uuid::new_v4() for shopping items returns a value in 1..MaxItems
MaxItems == 3
\* products stored when suggestions are generated
MaxProducts == 3
\* suggestions in one answer of the generator
MaxSuggestions == 2

\* a calendar day (UTC) is DayLen consecutive instants; expiry dates and the
\* readings of the clock taken for urgency fall on the days 0..MaxDay
DayLen == 2
MaxDay == 4

Times == 1..MaxTime
Instants == 0..((MaxDay + 1) * DayLen - 1)
ItemIds == 1..MaxItems
Owners == {"A", "B"}
ProductIds == {1, 2}
\* request slots (independent asynchronous tasks)
Reqs == {1, 2}
\* slots used when requests do not overlap
SeqReqs == {1}

\* Option<T>: None is the empty sequence, Some(x) the one-element sequence
None == << >>
Some(x) == <<x>>
\* an absent table row, an unset request field
NoRow == [exists |-> FALSE]
Nil == [nil |-> TRUE]

(***************************************************************************)
(* Value objects and their string forms                                    *)
(***************************************************************************)
ProductStatus == {"New", "Opened", "AlmostEmpty", "Finished"}
ProductLocation == {"Fridge", "Pantry", "Freezer"}
ProductOutcome == {"Used", "ThrownAway"}

\* impl Display for ProductStatus
StatusToString(s) ==
    CASE s = "New" -> "new"
      [] s = "Opened" -> "opened"
      [] s = "AlmostEmpty" -> "almost_empty"
      [] s = "Finished" -> "finished"

\* impl FromStr for ProductStatus (Err(_) is "Err")
StatusFromStr(s) ==
    CASE s = "new" -> "New"
      [] s = "opened" -> "Opened"
      [] s = "almost_empty" -> "AlmostEmpty"
      [] s = "finished" -> "Finished"
      [] OTHER -> "Err"

\* impl Display for ProductLocation
LocationToString(l) ==
    CASE l = "Fridge" -> "fridge"
      [] l = "Pantry" -> "pantry"
      [] l = "Freezer" -> "freezer"

\* impl FromStr for ProductLocation
LocationFromStr(s) ==
    CASE s = "fridge" -> "Fridge"
      [] s = "pantry" -> "Pantry"
      [] s = "freezer" -> "Freezer"
      [] OTHER -> "Err"

\* impl Display for ProductOutcome
OutcomeToString(o) ==
    CASE o = "Used" -> "used"
      [] o = "ThrownAway" -> "thrown_away"

\* impl FromStr for ProductOutcome
OutcomeFromStr(s) ==
    CASE s = "used" -> "Used"
      [] s = "thrown_away" -> "ThrownAway"
      [] OTHER -> "Err"

(***************************************************************************)
(* Names: strings are sequences of characters                              *)
(***************************************************************************)
Whitespace == {" ", "\t", "\n"}

\* name.trim().is_empty()
TrimIsEmpty(name) == \A i \in 1..Len(name) : name[i] \in Whitespace

OldName == <<"o", "j">>
\* names a command may carry
Names == {<< >>, <<" ", "\t">>, OldName, <<" ", "m">>}

(***************************************************************************)
(* Domain aggregates                                                       *)
(***************************************************************************)
\* Product::from_repository
ProductFromRepository(id, user_id, name, status, location, quantity, expiry_date, estimated_expiry_date, outcome, created_at, updated_at) ==
    [id |-> id, user_id |-> user_id, name |-> name, status |-> status,
     location |-> location, quantity |-> quantity,
     expiry_date |-> expiry_date,
     estimated_expiry_date |-> estimated_expiry_date,
     outcome |-> outcome, created_at |-> created_at,
     updated_at |-> updated_at]

\* faulty variant of ShoppingItemNew: the product link is dropped
ShoppingItemNewUnlinked(user_id, name, product_id, uuid, now) ==
    IF TrimIsEmpty(name)
    THEN [ok |-> FALSE, err |-> "NameEmpty"]
    ELSE [ok |-> TRUE,
          value |-> [id |-> uuid, user_id |-> user_id, name |-> name,
                     product_id |-> None, is_bought |-> FALSE,
                     created_at |-> now, updated_at |-> now]]

\* ShoppingItem::new, with the id Uuid::new_v4() generates and the time of the call
ShoppingItemNew(user_id, name, product_id, uuid, now) ==
    IF TrimIsEmpty(name)
    THEN [ok |-> FALSE, err |-> "NameEmpty"]
    ELSE [ok |-> TRUE,
          value |-> [id |-> uuid, user_id |-> user_id, name |-> name,
                     product_id |-> product_id, is_bought |-> FALSE,
                     created_at |-> now, updated_at |-> now]]

(***************************************************************************)
(* Product table (ProductRepositoryPostgres)                               *)
(***************************************************************************)
\* self.status.parse::<ProductStatus>().unwrap_or(ProductStatus::New)
EntityStatus(s) == IF StatusFromStr(s) = "Err" THEN "New" ELSE StatusFromStr(s)

\* self.location.and_then(|l| l.parse::<ProductLocation>().ok())
EntityLocation(o) ==
    IF o = None \/ LocationFromStr(o[1]) = "Err" THEN None
    ELSE Some(LocationFromStr(o[1]))

\* self.outcome.and_then(|o| o.parse::<ProductOutcome>().ok())
EntityOutcome(o) ==
    IF o = None \/ OutcomeFromStr(o[1]) = "Err" THEN None
    ELSE Some(OutcomeFromStr(o[1]))

\* ProductEntity::into_domain
ProductIntoDomain(id, row) ==
    ProductFromRepository(id, row.user_id, row.name, EntityStatus(row.status),
        EntityLocation(row.location), row.quantity, row.expiry_date,
        row.estimated_expiry_date, EntityOutcome(row.outcome),
        row.created_at, row.updated_at)

\* get_by_id: SELECT ... FROM products WHERE id = $1; the statement has no
\* owner predicate, so user_id does not take part in the lookup
ProductGetById(table, id, user_id) ==
    IF table[id] = NoRow
    THEN [ok |-> FALSE, err |-> "NotFound"]
    ELSE [ok |-> TRUE, value |-> ProductIntoDomain(id, table[id])]

\* owner column of a row inserted by save: the INSERT binds no user_id
DefaultOwner == "unset"

\* the columns save binds and overwrites on conflict
ProductWritten(p) ==
    [name |-> p.name,
     status |-> StatusToString(p.status),
     location |-> IF p.location = None THEN None
                  ELSE Some(LocationToString(p.location[1])),
     quantity |-> p.quantity,
     expiry_date |-> p.expiry_date,
     estimated_expiry_date |-> p.estimated_expiry_date,
     outcome |-> IF p.outcome = None THEN None
                 ELSE Some(OutcomeToString(p.outcome[1])),
     updated_at |-> p.updated_at]

\* save: INSERT ... ON CONFLICT (id) DO UPDATE SET name, status, location,
\* quantity, expiry_date, estimated_expiry_date, outcome, updated_at
ProductSave(table, p) ==
    IF table[p.id] = NoRow
    THEN [table EXCEPT ![p.id] =
             ProductWritten(p) @@ [exists |-> TRUE, user_id |-> DefaultOwner,
                                   created_at |-> p.created_at]]
    ELSE [table EXCEPT ![p.id] =
             ProductWritten(p) @@ [exists |-> TRUE,
                                   user_id |-> table[p.id].user_id,
                                   created_at |-> table[p.id].created_at]]

(***************************************************************************)
(* Shopping item table (ShoppingItemRepositoryPostgres)                    *)
(***************************************************************************)
\* ids of the rows matched by WHERE product_id = $1 AND user_id = $2
LinkedItems(table, product_id, user_id) ==
    {i \in ItemIds : /\ table[i] # NoRow
                     /\ table[i].product_id = Some(product_id)
                     /\ table[i].user_id = user_id}

\* ShoppingItemEntity::into_domain
ShoppingIntoDomain(id, row) ==
    [id |-> id, user_id |-> row.user_id, name |-> row.name,
     product_id |-> row.product_id, is_bought |-> row.is_bought,
     created_at |-> row.created_at, updated_at |-> row.updated_at]

\* find_by_product_id: the results fetch_optional may return (one of the
\* matching rows, or None when there is none)
ShoppingFindByProductId(table, product_id, user_id) ==
    IF LinkedItems(table, product_id, user_id) = {}
    THEN {None}
    ELSE {Some(ShoppingIntoDomain(i, table[i])) :
             i \in LinkedItems(table, product_id, user_id)}

\* save: INSERT ... ON CONFLICT (id) DO UPDATE SET name, is_bought, updated_at
ShoppingSave(table, item) ==
    IF table[item.id] = NoRow
    THEN [table EXCEPT ![item.id] =
             [exists |-> TRUE, user_id |-> item.user_id, name |-> item.name,
              product_id |-> item.product_id, is_bought |-> item.is_bought,
              created_at |-> item.created_at, updated_at |-> item.updated_at]]
    ELSE [table EXCEPT ![item.id] =
             [@ EXCEPT !.name = item.name, !.is_bought = item.is_bought,
                       !.updated_at = item.updated_at]]

\* delete_by_product_id: DELETE ... WHERE product_id = $1 AND user_id = $2
ShoppingDeleteByProductId(table, product_id, user_id) ==
    [i \in ItemIds |->
        IF i \in LinkedItems(table, product_id, user_id) THEN NoRow
                                                         ELSE table[i]]

(***************************************************************************)
(* State                                                                   *)
(***************************************************************************)
VARIABLES
    products,        \* the products table: ProductIds -> row or NoRow
    shopping_items,  \* the shopping_items table: ItemIds -> row or NoRow
    pc,              \* per request: the repository call it awaits
    params,          \* per request: the command
    existing,        \* per request: the product get_by_id returned
    updated_product, \* per request: the replacement aggregate
    item,            \* per request: the ShoppingItem constructed
    calls,           \* per request: the repository calls completed, in order
    log,             \* per request: the logger calls, in order
    result,          \* per request: the value execute returns
    pre_products,    \* products table when the request started
    pre_shopping,    \* shopping_items table when the request started
    clock,           \* the instant Utc::now() returns
    usable,          \* per request: the products generate keeps after its filter
    fetched,         \* per request: the products get_active_products returned and the clock reading of the filter
    ranked           \* per request: the urgency levels the sort computed and its clock reading

vars == <<products, shopping_items, pc, params, existing, updated_product, item, calls, log, result, pre_products, pre_shopping, clock, usable, fetched, ranked>>

\* RepositoryError produced by every failed statement: map_err(|_| DatabaseError)
DatabaseError == "DatabaseError"

Ok(v) == [ok |-> TRUE, value |-> v]
Err(e) == [ok |-> FALSE, err |-> e]

\* a completed repository call: its arguments and whether it returned Ok
Call(op, args, ok) == [op |-> op, args |-> args, ok |-> ok]

ShoppingOps == {"shopping.find_by_product_id", "shopping.save", "shopping.delete_by_product_id"}

(***************************************************************************)
(* Commands                                                                *)
(***************************************************************************)
\* (location, quantity, expiry_date, estimated_expiry_date) of a command
Payloads ==
    { <<None, None, None, None>>,
      <<Some("Fridge"), Some("2"), Some(1), Some(2)>> }

UpdateProductParams ==
    { [id |-> i, user_id |-> u, name |-> n, status |-> s, location |-> pl[1],
       quantity |-> pl[2], expiry_date |-> pl[3],
       estimated_expiry_date |-> pl[4], outcome |-> o] :
        i \in ProductIds, u \in Owners, n \in Names, s \in ProductStatus,
        pl \in Payloads, o \in {None} \cup {Some(x) : x \in ProductOutcome} }

(***************************************************************************)
(* Initial state: product 1 is stored for owner A, product 2 does not      *)
(* exist, the shopping list is empty, no request is running.               *)
(***************************************************************************)
InitialRows ==
    { [exists |-> TRUE, user_id |-> "A", name |-> OldName,
       status |-> StatusToString(s), location |-> Some("pantry"),
       quantity |-> None, expiry_date |-> None,
       estimated_expiry_date |-> None,
       outcome |-> o, created_at |-> 0, updated_at |-> 0] :
        s \in ProductStatus, o \in {None, Some("used")} } 

ValidRow(row) == row.outcome # None => row.status = "finished"

Init ==
    /\ \E row \in {x \in InitialRows : ValidRow(x)} :
          products = [i \in ProductIds |-> IF i = 1 THEN row ELSE NoRow]
    /\ shopping_items = [i \in ItemIds |-> NoRow]
    /\ pc = [r \in Reqs |-> "idle"]
    /\ params = [r \in Reqs |-> Nil]
    /\ existing = [r \in Reqs |-> Nil]
    /\ updated_product = [r \in Reqs |-> Nil]
    /\ item = [r \in Reqs |-> Nil]
    /\ calls = [r \in Reqs |-> << >>]
    /\ log = [r \in Reqs |-> << >>]
    /\ result = [r \in Reqs |-> Nil]
    /\ pre_products = [r \in Reqs |-> Nil]
    /\ pre_shopping = [r \in Reqs |-> Nil]
    /\ clock = 0
    /\ usable = [r \in Reqs |-> Nil]
    /\ fetched = [r \in Reqs |-> Nil]
    /\ ranked = [r \in Reqs |-> Nil]

(***************************************************************************)
(* UpdateProductUseCaseImpl::execute                                       *)
(***************************************************************************)
\* ids that are stored or carried by an item a request has constructed
UsedUuids ==
    {i \in ItemIds : shopping_items[i] # NoRow}
        \cup {item[r].id : r \in {q \in Reqs : item[q] # Nil}}

\* the value Uuid::new_v4() returns: an id no stored or pending item carries
NewUuid ==
    CHOOSE i \in ItemIds \ UsedUuids : \A j \in ItemIds \ UsedUuids : i <= j

UuidAvailable == ItemIds \ UsedUuids # {}

\* faulty variant of UpdateValidate: the outcome check runs first
UpdateValidateOutcomeFirst(p) ==
    IF p.outcome # None /\ p.status # "Finished"
    THEN [ok |-> FALSE, err |-> <<"OutcomeRequiresFinishedStatus">>]
    ELSE IF TrimIsEmpty(p.name) THEN [ok |-> FALSE, err |-> <<"NameEmpty">>]
         ELSE [ok |-> TRUE, value |-> Nil]

\* faulty variant of UpdateValidate: the outcome is not checked
UpdateValidateNameOnly(p) ==
    IF TrimIsEmpty(p.name) THEN [ok |-> FALSE, err |-> <<"NameEmpty">>]
    ELSE [ok |-> TRUE, value |-> Nil]

\* params.name.trim().is_empty() / outcome.is_some() && status != Finished
UpdateValidate(p) ==
    IF TrimIsEmpty(p.name) THEN Err(<<"NameEmpty">>)
    ELSE IF p.outcome # None /\ p.status # "Finished"
         THEN Err(<<"OutcomeRequiresFinishedStatus">>)
         ELSE Ok(Nil)

\* map_err(|e| match e { NotFound => ProductError::NotFound, other => Repository(other) })
MapGetByIdError(e) ==
    IF e = "NotFound" THEN <<"NotFound">> ELSE <<"Repository", e>>

\* faulty variant of UpdatedProduct: created_at is taken from the clock
UpdatedProductNewCreatedAt(ex, p, now) ==
    ProductFromRepository(ex.id, ex.user_id, p.name, p.status, p.location,
        p.quantity, p.expiry_date, p.estimated_expiry_date, p.outcome,
        now, now)

\* the replacement built from the stored product and the command
UpdatedProduct(ex, p, now) ==
    ProductFromRepository(ex.id, ex.user_id, p.name, p.status, p.location,
        p.quantity, p.expiry_date, p.estimated_expiry_date, p.outcome,
        ex.created_at, now)

\* faulty variant of AutoAdd: the old status is not looked at
AutoAddIgnoringOld(old_status, new_status) == new_status = "Finished"

\* new_status == Finished && old_status != Finished
AutoAdd(old_status, new_status) ==
    new_status = "Finished" /\ old_status # "Finished"

\* faulty variant of AutoRemove: only a return to New counts
AutoRemoveOnlyToNew(old_status, new_status) ==
    old_status = "Finished" /\ new_status = "New"

\* old_status == Finished && new_status != Finished
AutoRemove(old_status, new_status) ==
    old_status = "Finished" /\ new_status # "Finished"

\* entry: the info log, the two validations, then the product lookup is issued
UpdateStartFrom(r, commands) ==
    /\ pc[r] = "idle"
    /\ UuidAvailable
    /\ \E p \in commands :
          /\ params' = [params EXCEPT ![r] = p]
          /\ log' = [log EXCEPT ![r] = <<"info: Updating product">>]
          /\ IF UpdateValidate(p).ok
             THEN /\ pc' = [pc EXCEPT ![r] = "get_by_id"]
                  /\ result' = [result EXCEPT ![r] = Nil]
             ELSE /\ pc' = [pc EXCEPT ![r] = "done"]
                  /\ result' = [result EXCEPT ![r] = Err(UpdateValidate(p).err)]
    /\ calls' = [calls EXCEPT ![r] = << >>]
    /\ pre_products' = [pre_products EXCEPT ![r] = products]
    /\ pre_shopping' = [pre_shopping EXCEPT ![r] = shopping_items]
    /\ UNCHANGED <<products, shopping_items, existing, updated_product, item, clock, usable, fetched, ranked>>

\* execute is called with any command of the bounded command set
UpdateStart(r) == UpdateStartFrom(r, UpdateProductParams)

\* repository.get_by_id(params.id, &params.user_id) completes; on success the
\* replacement aggregate is built and the product save is issued
UpdateGetById(r) ==
    /\ pc[r] = "get_by_id"
    /\ \E fail \in BOOLEAN, now \in Times :
          LET res == IF fail THEN Err(DatabaseError)
                     ELSE ProductGetById(products, params[r].id, params[r].user_id)
          IN  /\ calls' = [calls EXCEPT ![r] = Append(@, Call("product.get_by_id", <<params[r].id, params[r].user_id>>, res.ok))]
              /\ IF res.ok
                 THEN /\ existing' = [existing EXCEPT ![r] = res.value]
                      /\ updated_product' = [updated_product EXCEPT ![r] =
                            UpdatedProduct(res.value, params[r], now)]
                      /\ pc' = [pc EXCEPT ![r] = "product_save"]
                      /\ UNCHANGED result
                 ELSE /\ result' = [result EXCEPT ![r] = Err(MapGetByIdError(res.err))]
                      /\ pc' = [pc EXCEPT ![r] = "done"]
                      /\ UNCHANGED <<existing, updated_product>>
    /\ UNCHANGED <<products, shopping_items, params, item, log, pre_products, pre_shopping, clock, usable, fetched, ranked>>

\* what follows the product save: the auto-add lookup, the auto-remove delete,
\* or the final info log and Ok(updated_product)
AfterProductSave(r) ==
    IF AutoAdd(existing[r].status, params[r].status) THEN "find_by_product_id"
    ELSE IF AutoRemove(existing[r].status, params[r].status) THEN "delete_by_product_id"
    ELSE "done"

\* faulty variant of UpdateFinish: a logged failure is returned as the error
UpdateFinishPropagating(r, entries) ==
    /\ log' = [log EXCEPT ![r] = @ \o entries \o <<"info: Product updated">>]
    /\ result' = [result EXCEPT ![r] =
          IF entries = << >> THEN [ok |-> TRUE, value |-> updated_product[r]]
          ELSE [ok |-> FALSE, err |-> <<"Repository", DatabaseError>>]]
    /\ pc' = [pc EXCEPT ![r] = "done"]

\* the tail of execute: the info log and Ok(updated_product)
UpdateFinish(r, entries) ==
    /\ log' = [log EXCEPT ![r] = @ \o entries \o <<"info: Product updated">>]
    /\ result' = [result EXCEPT ![r] = Ok(updated_product[r])]
    /\ pc' = [pc EXCEPT ![r] = "done"]

\* faulty variant of UpdateProductSave: the result of the save is dropped
\* instead of propagated with `?`
UpdateProductSaveIgnoringError(r) ==
    /\ pc[r] = "product_save"
    /\ \E fail \in BOOLEAN :
          /\ calls' = [calls EXCEPT ![r] = Append(@, Call("product.save", <<updated_product[r].id>>, ~fail))]
          /\ products' = IF fail THEN products ELSE ProductSave(products, updated_product[r])
          /\ IF AfterProductSave(r) = "done"
             THEN UpdateFinish(r, << >>)
             ELSE /\ pc' = [pc EXCEPT ![r] = AfterProductSave(r)]
                  /\ UNCHANGED <<log, result>>
    /\ UNCHANGED <<shopping_items, params, existing, updated_product, item, pre_products, pre_shopping, clock, usable, fetched, ranked>>

\* repository.save(&updated_product).await? completes
UpdateProductSave(r) ==
    /\ pc[r] = "product_save"
    /\ \E fail \in BOOLEAN :
          /\ calls' = [calls EXCEPT ![r] = Append(@, Call("product.save", <<updated_product[r].id>>, ~fail))]
          /\ IF fail
             THEN /\ result' = [result EXCEPT ![r] = Err(<<"Repository", DatabaseError>>)]
                  /\ pc' = [pc EXCEPT ![r] = "done"]
                  /\ UNCHANGED <<products, log>>
             ELSE /\ products' = ProductSave(products, updated_product[r])
                  /\ IF AfterProductSave(r) = "done"
                     THEN UpdateFinish(r, << >>)
                     ELSE /\ pc' = [pc EXCEPT ![r] = AfterProductSave(r)]
                          /\ UNCHANGED <<log, result>>
    /\ UNCHANGED <<shopping_items, params, existing, updated_product, item, pre_products, pre_shopping, clock, usable, fetched, ranked>>

\* shopping_item_repository.find_by_product_id(existing.id, &params.user_id)
\* completes; on Ok(None) the item is constructed and its save is issued, in
\* every other case the let-chain ends without a log entry
UpdateFindByProductId(r) ==
    /\ pc[r] = "find_by_product_id"
    /\ \E fail \in BOOLEAN, now \in Times :
       \E found \in ShoppingFindByProductId(shopping_items, existing[r].id, params[r].user_id) :
          LET new == ShoppingItemNew(params[r].user_id, params[r].name, Some(existing[r].id), NewUuid, now)
          IN  /\ calls' = [calls EXCEPT ![r] = Append(@, Call("shopping.find_by_product_id", <<existing[r].id, params[r].user_id>>, ~fail))]
              /\ IF ~fail /\ found = None /\ new.ok
                 THEN /\ item' = [item EXCEPT ![r] = new.value]
                      /\ pc' = [pc EXCEPT ![r] = "shopping_save"]
                      /\ UNCHANGED <<log, result>>
                 ELSE /\ UpdateFinish(r, << >>)
                      /\ UNCHANGED item
    /\ UNCHANGED <<products, shopping_items, params, existing, updated_product, pre_products, pre_shopping, clock, usable, fetched, ranked>>

\* shopping_item_repository.save(&item) completes; Err(e) is logged as a warning
UpdateShoppingSave(r) ==
    /\ pc[r] = "shopping_save"
    /\ \E fail \in BOOLEAN :
          /\ calls' = [calls EXCEPT ![r] = Append(@, Call("shopping.save", <<item[r].id>>, ~fail))]
          /\ IF fail
             THEN /\ UpdateFinish(r, <<"warn: Failed to auto-add shopping item">>)
                  /\ UNCHANGED shopping_items
             ELSE /\ shopping_items' = ShoppingSave(shopping_items, item[r])
                  /\ UpdateFinish(r, << >>)
    /\ UNCHANGED <<products, params, existing, updated_product, item, pre_products, pre_shopping, clock, usable, fetched, ranked>>

\* shopping_item_repository.delete_by_product_id(existing.id, &params.user_id)
\* completes; Err(e) is logged as a warning
UpdateDeleteByProductId(r) ==
    /\ pc[r] = "delete_by_product_id"
    /\ \E fail \in BOOLEAN :
          /\ calls' = [calls EXCEPT ![r] = Append(@, Call("shopping.delete_by_product_id", <<existing[r].id, params[r].user_id>>, ~fail))]
          /\ IF fail
             THEN /\ UpdateFinish(r, <<"warn: Failed to remove shopping item">>)
                  /\ UNCHANGED shopping_items
             ELSE /\ shopping_items' = ShoppingDeleteByProductId(shopping_items, existing[r].id, params[r].user_id)
                  /\ UpdateFinish(r, << >>)
    /\ UNCHANGED <<products, params, existing, updated_product, item, pre_products, pre_shopping, clock, usable, fetched, ranked>>

\* the caller takes the result; the task ends and its locals are dropped
UpdateReturn(r) ==
    /\ pc[r] = "done"
    /\ pc' = [pc EXCEPT ![r] = "idle"]
    /\ params' = [params EXCEPT ![r] = Nil]
    /\ existing' = [existing EXCEPT ![r] = Nil]
    /\ updated_product' = [updated_product EXCEPT ![r] = Nil]
    /\ item' = [item EXCEPT ![r] = Nil]
    /\ calls' = [calls EXCEPT ![r] = << >>]
    /\ log' = [log EXCEPT ![r] = << >>]
    /\ result' = [result EXCEPT ![r] = Nil]
    /\ pre_products' = [pre_products EXCEPT ![r] = Nil]
    /\ pre_shopping' = [pre_shopping EXCEPT ![r] = Nil]
    /\ usable' = [usable EXCEPT ![r] = Nil]
    /\ fetched' = [fetched EXCEPT ![r] = Nil]
    /\ ranked' = [ranked EXCEPT ![r] = Nil]
    /\ UNCHANGED <<products, shopping_items, clock>>

(***************************************************************************)
(* Specification: requests run one at a time                               *)
(***************************************************************************)
Next ==
    \E r \in SeqReqs :
        \/ UpdateStart(r)
        \/ UpdateGetById(r)
        \/ UpdateProductSave(r)
        \/ UpdateFindByProductId(r)
        \/ UpdateShoppingSave(r)
        \/ UpdateDeleteByProductId(r)
        \/ UpdateReturn(r)

Spec == Init /\ [][Next]_vars

(***************************************************************************)
(* Vocabulary of the properties                                            *)
(***************************************************************************)
CallOps(r) == {calls[r][i].op : i \in 1..Len(calls[r])}

Succeeded(r, op) == \E i \in 1..Len(calls[r]) : calls[r][i].op = op /\ calls[r][i].ok

Failed(r, op) == \E i \in 1..Len(calls[r]) : calls[r][i].op = op /\ ~calls[r][i].ok

Warned(r) == \E i \in 1..Len(log[r]) : log[r][i] \in {"warn: Failed to auto-add shopping item", "warn: Failed to remove shopping item"}

BlankNames == {<< >>, <<" ", "\t">>}

\* the request has read the stored product and moves it into Finished
IntoFinished(r) ==
    existing[r] # Nil /\ existing[r].status # "Finished" /\ params[r].status = "Finished"

\* the request has read the stored product and moves it out of Finished
OutOfFinished(r) ==
    existing[r] # Nil /\ existing[r].status = "Finished" /\ params[r].status # "Finished"

\* rows of the shopping list linked to the product of request r for the
\* owner the request was issued for, in table t
LinkedFor(r, t) ==
    {i \in ItemIds : /\ t[i] # NoRow
                     /\ t[i].product_id = Some(params[r].id)
                     /\ t[i].user_id = params[r].user_id}

\* the shopping list differs from the one the request found by exactly one
\* new row: linked to the product, owned by the commanding owner, named after
\* the product, not bought
ExactlyOneItemCreated(r) ==
    \E i \in ItemIds :
        /\ pre_shopping[r][i] = NoRow
        /\ shopping_items[i] # NoRow
        /\ shopping_items[i].product_id = Some(params[r].id)
        /\ shopping_items[i].user_id = params[r].user_id
        /\ shopping_items[i].name = params[r].name
        /\ shopping_items[i].is_bought = FALSE
        /\ \A j \in ItemIds \ {i} : shopping_items[j] = pre_shopping[r][j]

(***************************************************************************)
(* C1: once the replacement product has been persisted, no failure of a    *)
(* shopping-list step changes the outcome: the stored product read back    *)
(* is the replacement in every later step of the request, and the request  *)
(* ends with Ok(replacement).                                              *)
(***************************************************************************)
C1_ShoppingFailureKeepsUpdate ==
    \A r \in Reqs :
        Succeeded(r, "product.save") =>
            /\ products[params[r].id] # NoRow
            /\ ProductIntoDomain(params[r].id, products[params[r].id]) = updated_product[r]
            /\ pc[r] = "done" => result[r] = Ok(updated_product[r])

C1_Witness ==
    \E r \in Reqs :
        /\ pc[r] = "done"
        /\ Succeeded(r, "product.save")
        /\ Failed(r, "shopping.save")
        /\ result[r].ok

C3_AutoRemove ==
    \A r \in Reqs :
        (pc[r] = "done" /\ result[r].ok /\ OutOfFinished(r)) =>
            /\ \E i \in 1..Len(calls[r]) :
                  /\ calls[r][i].op = "shopping.delete_by_product_id"
                  /\ calls[r][i].args = <<params[r].id, params[r].user_id>>
            /\ Succeeded(r, "shopping.delete_by_product_id")
                  => LinkedFor(r, shopping_items) = {}

C3_Witness ==
    \E r \in Reqs :
        /\ pc[r] = "done" /\ result[r].ok /\ OutOfFinished(r)
        /\ LinkedFor(r, pre_shopping[r]) # {}
        /\ Succeeded(r, "shopping.delete_by_product_id")

(***************************************************************************)
(* C4: when the stored and the commanded status are both Finished or both  *)
(* not Finished, the request makes no shopping-list repository call and    *)
(* the shopping list stays as the request found it.                        *)
(***************************************************************************)
C4_NoTransitionNoShoppingCall ==
    \A r \in Reqs :
        (existing[r] # Nil /\ (existing[r].status = "Finished") = (params[r].status = "Finished")) =>
            /\ CallOps(r) \cap ShoppingOps = {}
            /\ shopping_items = pre_shopping[r]

C4_Witness ==
    \E r \in Reqs :
        /\ pc[r] = "done" /\ result[r].ok
        /\ existing[r].status = "Finished" /\ params[r].status = "Finished"
        /\ LinkedFor(r, shopping_items) = {}

(***************************************************************************)
(* C5: every shopping-list repository call of a request comes after a      *)
(* successful product save of the same request.                            *)
(***************************************************************************)
C5_ProductSaveFirst ==
    \A r \in Reqs : \A i \in 1..Len(calls[r]) :
        calls[r][i].op \in ShoppingOps =>
            \E j \in 1..(i - 1) : calls[r][j].op = "product.save" /\ calls[r][j].ok

C5_Witness ==
    \E r \in Reqs :
        Succeeded(r, "shopping.find_by_product_id") /\ Succeeded(r, "shopping.save")

(***************************************************************************)
(* C6: when the product save fails the request returns the repository      *)
(* error, makes no shopping-list call, and both tables are as the request  *)
(* found them.                                                             *)
(***************************************************************************)
C6_SaveFailureNoSideEffects ==
    \A r \in Reqs :
        Failed(r, "product.save") =>
            /\ pc[r] = "done"
            /\ result[r] = Err(<<"Repository", DatabaseError>>)
            /\ CallOps(r) \cap ShoppingOps = {}
            /\ products = pre_products[r]
            /\ shopping_items = pre_shopping[r]

C6_Witness ==
    \E r \in Reqs :
        /\ pc[r] = "done" /\ Failed(r, "product.save")
        /\ IntoFinished(r)
        /\ LinkedFor(r, pre_shopping[r]) = {}

(***************************************************************************)
(* C7: a blank name is rejected with NameEmpty (also when the outcome      *)
(* check would fail too), an outcome with a status other than Finished     *)
(* with OutcomeRequiresFinishedStatus; neither rejection makes a           *)
(* repository call or changes a table.                                     *)
(***************************************************************************)
C7_ValidationBeforeIO ==
    \A r \in Reqs :
        (pc[r] # "idle" /\ (params[r].name \in BlankNames \/ (params[r].outcome # None /\ params[r].status # "Finished"))) =>
            /\ pc[r] = "done"
            /\ result[r] = IF params[r].name \in BlankNames
                           THEN Err(<<"NameEmpty">>)
                           ELSE Err(<<"OutcomeRequiresFinishedStatus">>)
            /\ calls[r] = << >>
            /\ products = pre_products[r]
            /\ shopping_items = pre_shopping[r]

C7_Witness ==
    \E r \in Reqs :
        /\ pc[r] = "done"
        /\ params[r].name = <<" ", "\t">>
        /\ params[r].outcome # None /\ params[r].status # "Finished"
        /\ result[r] = Err(<<"NameEmpty">>)

(***************************************************************************)
(* C8: an update of a product id that is absent, or stored for another     *)
(* owner than the commanding one, returns NotFound without a product save  *)
(* or a shopping-list call (unless the lookup itself fails).               *)
(***************************************************************************)
C8_ForeignOrAbsentIsNotFound ==
    \A r \in Reqs :
        (/\ pc[r] = "done"
         /\ Succeeded(r, "product.get_by_id") \/ result[r] = Err(<<"NotFound">>)
         /\ \/ pre_products[r][params[r].id] = NoRow
            \/ pre_products[r][params[r].id].user_id # params[r].user_id) =>
            /\ result[r] = Err(<<"NotFound">>)
            /\ "product.save" \notin CallOps(r)
            /\ CallOps(r) \cap ShoppingOps = {}

(***************************************************************************)
(* C9: a successful update keeps id, created_at and owner of the stored    *)
(* product, in the row and in the returned product, and name, status,      *)
(* location, quantity, expiry_date, estimated_expiry_date and outcome of   *)
(* both are the commanded values.                                          *)
(***************************************************************************)
CommandedFields(p) ==
    <<p.name, p.status, p.location, p.quantity, p.expiry_date, p.estimated_expiry_date, p.outcome>>

C9_UpdatePreservesIdentity ==
    \A r \in Reqs :
        (pc[r] = "done" /\ result[r].ok) =>
            LET id == params[r].id
                before == pre_products[r][id]
                row == products[id]
                stored == ProductIntoDomain(id, row)
                returned == result[r].value
            IN  /\ before # NoRow /\ row # NoRow
                /\ row.user_id = before.user_id
                /\ row.created_at = before.created_at
                /\ returned.id = id
                /\ returned.user_id = before.user_id
                /\ returned.created_at = before.created_at
                /\ CommandedFields(returned) = CommandedFields(params[r])
                /\ CommandedFields(stored) = CommandedFields(params[r])

C9_Witness ==
    \E r \in Reqs :
        /\ pc[r] = "done" /\ result[r].ok
        /\ params[r].name # pre_products[r][params[r].id].name
        /\ params[r].status = "AlmostEmpty"
        /\ params[r].location = Some("Fridge")
        /\ products[params[r].id].updated_at # products[params[r].id].created_at

(***************************************************************************)
(* C10: every failure of a shopping-list step of an update (the            *)
(* find_by_product_id lookup, the item construction, the shopping save,    *)
(* the delete_by_product_id) is logged as a warning before update returns. *)
(***************************************************************************)
C10_ShoppingFailuresAreLogged ==
    \A r \in Reqs :
        (pc[r] = "done" /\ \E op \in ShoppingOps : Failed(r, op)) => Warned(r)

(***************************************************************************)
(* Shopping item repository: lookups and deletes by id and by bought flag  *)
(***************************************************************************)
\* get_by_id: SELECT ... WHERE id = $1 AND user_id = $2
ShoppingGetById(table, id, user_id) ==
    IF table[id] = NoRow THEN Err("NotFound")
    ELSE IF table[id].user_id = user_id
         THEN Ok(ShoppingIntoDomain(id, table[id]))
         ELSE Err("NotFound")

\* delete: DELETE FROM shopping_items WHERE id = $1 AND user_id = $2
ShoppingDelete(table, id, user_id) ==
    [i \in ItemIds |->
        IF i = id /\ ShoppingGetById(table, id, user_id).ok THEN NoRow
                                                              ELSE table[i]]

\* ids of the rows matched by WHERE is_bought = TRUE AND user_id = $1
BoughtItems(table, user_id) ==
    {i \in ItemIds : IF table[i] = NoRow THEN FALSE
                     ELSE table[i].is_bought /\ table[i].user_id = user_id}

\* delete_bought: the table after the DELETE; rows_affected is the number of
\* rows matched
ShoppingDeleteBought(table, user_id) ==
    [i \in ItemIds |->
        IF i \in BoughtItems(table, user_id) THEN NoRow ELSE table[i]]

(***************************************************************************)
(* Shopping item use cases. Each execute is a function of the table, the   *)
(* command, the outcome of every repository call it makes (fail[k] is TRUE *)
(* when its k-th call returns Err) and the clock; it yields the table      *)
(* afterwards, the calls made, the log written and the value returned.     *)
(***************************************************************************)
Out(table, made, logged, returned) ==
    [table |-> table, calls |-> made, log |-> logged, result |-> returned]

\* map_err of the shopping item use cases: NotFound stays NotFound, every
\* other repository error is wrapped
MapShoppingGetByIdError(e) ==
    IF e = "NotFound" THEN <<"NotFound">> ELSE <<"Repository", e>>

\* CreateShoppingItemUseCaseImpl::execute; found[1] and found[2] are what the
\* two find_by_product_id calls return when they do not fail
CreateShoppingItemExecute(table, p, found, fail, uuid, now) ==
    LET pid == p.product_id
        find(k) == Call("shopping.find_by_product_id", <<pid[1], p.user_id>>, ~fail[k])
        started == <<"info: Creating shopping item">>
        new == ShoppingItemNew(p.user_id, p.name, pid, uuid, now)
        looked == IF pid = None THEN << >> ELSE <<find(1)>>
        linked == IF pid = None THEN FALSE
                  ELSE IF fail[1] THEN FALSE ELSE found[1] # None
    IN  IF linked
        THEN LET skipped == started \o <<"info: Shopping item already exists, skipping">>
             IN  IF fail[2]
                 THEN Out(table, <<find(1), find(2)>>, skipped, Err(<<"Repository", DatabaseError>>))
                 ELSE IF found[2] = None
                      THEN Out(table, <<find(1), find(2)>>, skipped, Err(<<"NotFound">>))
                      ELSE Out(table, <<find(1), find(2)>>, skipped, Ok(found[2][1]))
        ELSE IF ~new.ok
             THEN Out(table, looked, started, Err(<<new.err>>))
             ELSE IF fail[3]
                  THEN Out(table, looked \o <<Call("shopping.save", <<uuid>>, FALSE)>>, started, Err(<<"Repository", DatabaseError>>))
                  ELSE Out(ShoppingSave(table, new.value), looked \o <<Call("shopping.save", <<uuid>>, TRUE)>>, started \o <<"info: Shopping item created">>, Ok(new.value))

\* faulty variant of UpdatedShoppingItem: an absent flag resets is_bought
UpdatedShoppingItemResettingFlag(ex, p, now) ==
    [id |-> ex.id, user_id |-> ex.user_id,
     name |-> IF p.name = None THEN ex.name ELSE p.name[1],
     product_id |-> ex.product_id,
     is_bought |-> IF p.is_bought = None THEN FALSE ELSE p.is_bought[1],
     created_at |-> ex.created_at, updated_at |-> now]

\* the item ShoppingItem::from_repository builds in the update: name and
\* is_bought of the command where present, the rest of the stored item
UpdatedShoppingItem(ex, p, now) ==
    [id |-> ex.id, user_id |-> ex.user_id,
     name |-> IF p.name = None THEN ex.name ELSE p.name[1],
     product_id |-> ex.product_id,
     is_bought |-> IF p.is_bought = None THEN ex.is_bought ELSE p.is_bought[1],
     created_at |-> ex.created_at, updated_at |-> now]

\* UpdateShoppingItemUseCaseImpl::execute
UpdateShoppingItemExecute(table, p, fail, now) ==
    LET got == IF fail[1] THEN Err(DatabaseError)
               ELSE ShoppingGetById(table, p.id, p.user_id)
        get == Call("shopping.get_by_id", <<p.id, p.user_id>>, got.ok)
        started == <<"info: Updating shopping item">>
        ex == got.value
        name == IF p.name = None THEN ex.name ELSE p.name[1]
        updated == UpdatedShoppingItem(ex, p, now)
    IN  IF ~got.ok
        THEN Out(table, <<get>>, started, Err(MapShoppingGetByIdError(got.err)))
        ELSE IF TrimIsEmpty(name) /\ p.name # None
             THEN Out(table, <<get>>, started, Err(<<"NameEmpty">>))
             ELSE IF fail[2]
                  THEN Out(table, <<get, Call("shopping.save", <<ex.id>>, FALSE)>>, started, Err(<<"Repository", DatabaseError>>))
                  ELSE Out(ShoppingSave(table, updated), <<get, Call("shopping.save", <<ex.id>>, TRUE)>>, started \o <<"info: Shopping item updated">>, Ok(updated))

\* DeleteShoppingItemUseCaseImpl::execute
DeleteShoppingItemExecute(table, p, fail) ==
    LET got == IF fail[1] THEN Err(DatabaseError)
               ELSE ShoppingGetById(table, p.id, p.user_id)
        get == Call("shopping.get_by_id", <<p.id, p.user_id>>, got.ok)
        started == <<"info: Deleting shopping item">>
    IN  IF ~got.ok
        THEN Out(table, <<get>>, started, Err(MapShoppingGetByIdError(got.err)))
        ELSE IF fail[2]
             THEN Out(table, <<get, Call("shopping.delete", <<p.id, p.user_id>>, FALSE)>>, started, Err(<<"Repository", DatabaseError>>))
             ELSE Out(ShoppingDelete(table, p.id, p.user_id), <<get, Call("shopping.delete", <<p.id, p.user_id>>, TRUE)>>, started \o <<"info: Shopping item deleted">>, Ok(Nil))

\* ClearBoughtItemsUseCaseImpl::execute
ClearBoughtItemsExecute(table, p, fail) ==
    LET started == <<"info: Clearing bought shopping items">>
    IN  IF fail[1]
        THEN Out(table, <<Call("shopping.delete_bought", <<p.user_id>>, FALSE)>>, started, Err(<<"Repository", DatabaseError>>))
        ELSE Out(ShoppingDeleteBought(table, p.user_id), <<Call("shopping.delete_bought", <<p.user_id>>, TRUE)>>, started \o <<"info: Cleared bought shopping items">>, Ok(Cardinality(BoughtItems(table, p.user_id))))

(***************************************************************************)
(* Product repository: delete and the active products                      *)
(***************************************************************************)
\* delete: DELETE FROM products WHERE id = $1; the statement has no owner
\* predicate, so user_id does not take part
ProductDelete(table, id, user_id) == [table EXCEPT ![id] = NoRow]

(***************************************************************************)
(* Product use cases other than update, in the form of the shopping item   *)
(* use cases: estimate is the date the estimator answers with (None when   *)
(* it has none), now[k] is the k-th reading of the clock.                  *)
(***************************************************************************)
\* faulty variant of ProductNew: the outcome is not checked against the status
ProductNewUncheckedOutcome(props, uuid, now) ==
    IF TrimIsEmpty(props.name) THEN Err(<<"NameEmpty">>)
    ELSE Ok(ProductFromRepository(uuid, DefaultOwner, props.name, props.status, props.location, props.quantity, props.expiry_date, props.estimated_expiry_date, props.outcome, now, now))

\* Product::new, with the id Uuid::new_v4() generates and the time of the call
ProductNew(props, uuid, now) ==
    IF TrimIsEmpty(props.name) THEN Err(<<"NameEmpty">>)
    ELSE IF props.outcome # None /\ props.status # "Finished"
         THEN Err(<<"OutcomeRequiresFinishedStatus">>)
         ELSE Ok(ProductFromRepository(uuid, DefaultOwner, props.name, props.status, props.location, props.quantity, props.expiry_date, props.estimated_expiry_date, props.outcome, now, now))

\* the estimator call made for a product
EstimateCall(product) ==
    Call("estimator.estimate_expiry_date", <<product.name, StatusToString(product.status), IF product.location = None THEN None ELSE Some(LocationToString(product.location[1]))>>, TRUE)

\* faulty variant of WithEstimate: an estimate the product already carries is kept
WithEstimateKeepingOld(product, date, now) ==
    IF product.estimated_expiry_date = None
    THEN [product EXCEPT !.estimated_expiry_date = Some(date), !.updated_at = now]
    ELSE [product EXCEPT !.updated_at = now]

\* product.estimated_expiry_date = Some(date); product.updated_at = Utc::now()
WithEstimate(product, date, now) ==
    [product EXCEPT !.estimated_expiry_date = Some(date), !.updated_at = now]

\* CreateProductUseCaseImpl::execute
CreateProductExecute(table, p, estimate, fail, uuid, now) ==
    LET new == ProductNew(p, uuid, now[1])
        product == new.value
        started == <<"info: Creating product">>
        save(k) == Call("product.save", <<uuid>>, ~fail[k])
        saved == ProductSave(table, product)
        estimated == WithEstimate(product, estimate[1], now[2])
    IN  IF ~new.ok THEN Out(table, << >>, started, Err(new.err))
        ELSE IF fail[1]
        THEN Out(table, <<save(1)>>, started, Err(<<"Repository", DatabaseError>>))
        ELSE IF product.expiry_date # None
        THEN Out(saved, <<save(1)>>, started \o <<"info: Product created">>, Ok(product))
        ELSE IF estimate = None
        THEN Out(saved, <<save(1), EstimateCall(product)>>, started \o <<"info: No expiry estimation available", "info: Product created">>, Ok(product))
        ELSE IF fail[2]
        THEN Out(saved, <<save(1), EstimateCall(product), save(2)>>, started \o <<"info: Estimated expiry">>, Err(<<"Repository", DatabaseError>>))
        ELSE Out(ProductSave(saved, estimated), <<save(1), EstimateCall(product), save(2)>>, started \o <<"info: Estimated expiry", "info: Product created">>, Ok(estimated))

\* DeleteProductUseCaseImpl::execute
DeleteProductExecute(table, p, fail) ==
    LET got == IF fail[1] THEN Err(DatabaseError)
               ELSE ProductGetById(table, p.id, p.user_id)
        get == Call("product.get_by_id", <<p.id, p.user_id>>, got.ok)
        started == <<"info: Deleting product">>
    IN  IF ~got.ok
        THEN Out(table, <<get>>, started, Err(MapGetByIdError(got.err)))
        ELSE IF fail[2]
             THEN Out(table, <<get, Call("product.delete", <<p.id, p.user_id>>, FALSE)>>, started, Err(<<"Repository", DatabaseError>>))
             ELSE Out(ProductDelete(table, p.id, p.user_id), <<get, Call("product.delete", <<p.id, p.user_id>>, TRUE)>>, started \o <<"info: Product deleted">>, Ok(Nil))

\* GetProductByIdUseCaseImpl::execute
GetProductByIdExecute(table, p, fail) ==
    LET got == IF fail[1] THEN Err(DatabaseError)
               ELSE ProductGetById(table, p.id, p.user_id)
        get == Call("product.get_by_id", <<p.id, p.user_id>>, got.ok)
        started == <<"info: Fetching product by id">>
    IN  IF ~got.ok
        THEN Out(table, <<get>>, started, Err(MapGetByIdError(got.err)))
        ELSE Out(table, <<get>>, started, Ok(got.value))

\* EstimateExpiryUseCaseImpl::execute
EstimateExpiryExecute(table, p, estimate, fail, now) ==
    LET got == IF fail[1] THEN Err(DatabaseError)
               ELSE ProductGetById(table, p.product_id, p.user_id)
        get == Call("product.get_by_id", <<p.product_id, p.user_id>>, got.ok)
        started == <<"info: Estimating expiry date">>
        product == got.value
        estimated == WithEstimate(product, estimate[1], now)
        save == Call("product.save", <<p.product_id>>, ~fail[2])
    IN  IF ~got.ok
        THEN Out(table, <<get>>, started, Err(MapGetByIdError(got.err)))
        ELSE IF estimate = None
        THEN Out(table, <<get, EstimateCall(product)>>, started \o <<"info: Expiry estimation complete">>, Ok(product))
        ELSE IF fail[2]
        THEN Out(table, <<get, EstimateCall(product), save>>, started, Err(<<"Repository", DatabaseError>>))
        ELSE Out(ProductSave(table, estimated), <<get, EstimateCall(product), save>>, started \o <<"info: Expiry estimation complete">>, Ok(estimated))

(***************************************************************************)
(* Requests of the remaining use cases. A request that does not overlap    *)
(* any other runs from its entry to its return in one step; the step       *)
(* leaves the command, the calls, the log and the returned value for the   *)
(* caller, as the last step of an update does.                             *)
(***************************************************************************)
\* the value Uuid::new_v4() returns for a product: an id no stored product carries
FreeProductIds == {i \in ProductIds : products[i] = NoRow}

NewProductUuid == CHOOSE i \in FreeProductIds : \A j \in FreeProductIds : i <= j

\* outcomes of the repository calls of one request: fail[k] for the k-th call
Failures == [1..3 -> BOOLEAN]

\* dates the estimator may answer with
Estimates == {None, Some(2)}

BlankName == <<" ", "\t">>

CreateShoppingItemParams ==
    { [user_id |-> u, name |-> n, product_id |-> pid] :
        u \in Owners, n \in {OldName, BlankName}, pid \in {None, Some(1)} }

UpdateShoppingItemParams ==
    { [id |-> i, user_id |-> u, name |-> n, is_bought |-> b] :
        i \in ItemIds, u \in Owners, n \in {None, Some(BlankName)},
        b \in {None, Some(TRUE)} }

DeleteShoppingItemParams == { [id |-> i, user_id |-> u] : i \in ItemIds, u \in Owners }

ClearBoughtItemsParams == { [user_id |-> u] : u \in Owners }

CreateProductParams ==
    { [name |-> n, status |-> s, location |-> None, quantity |-> None,
       expiry_date |-> e, estimated_expiry_date |-> None, outcome |-> o] :
        n \in {OldName, BlankName}, s \in {"Opened", "Finished"},
        e \in {None, Some(1)}, o \in {None, Some("Used")} }

DeleteProductParams == { [id |-> i, user_id |-> u] : i \in ProductIds, u \in Owners }

GetProductByIdParams == { [id |-> i, user_id |-> u] : i \in ProductIds, u \in Owners }

EstimateExpiryParams == { [product_id |-> i, user_id |-> u] : i \in ProductIds, u \in Owners }

\* the commands of the product update mixed with the other product requests:
\* issued for product 1 and owner A, with valid and invalid names and outcomes
ProductUpdateParams ==
    { p \in UpdateProductParams :
        /\ p.id = 1
        /\ p.user_id = "A"
        /\ p.name \in {OldName, BlankName}
        /\ p.status \in {"Opened", "Finished"}
        /\ p.location = None /\ p.quantity = None
        /\ p.expiry_date = None /\ p.estimated_expiry_date = None
        /\ p.outcome \in {None, Some("Used")} }

\* the commands of the product requests mixed with the shopping list
\* requests: product 1 is moved into and out of Finished for either owner
ListUpdateParams ==
    { p \in UpdateProductParams :
        /\ p.id = 1
        /\ p.name = OldName
        /\ p.status \in {"Opened", "Finished"}
        /\ p.location = None /\ p.quantity = None
        /\ p.expiry_date = None /\ p.estimated_expiry_date = None
        /\ p.outcome = None }

ListCreateProductParams ==
    { p \in CreateProductParams :
        p.name = OldName /\ p.status = "Opened" /\ p.expiry_date = Some(1) /\ p.outcome = None }

\* the request returns: what it leaves for the caller
Complete(r, p, out) ==
    /\ params' = [params EXCEPT ![r] = p]
    /\ calls' = [calls EXCEPT ![r] = out.calls]
    /\ log' = [log EXCEPT ![r] = out.log]
    /\ result' = [result EXCEPT ![r] = out.result]
    /\ pc' = [pc EXCEPT ![r] = "done"]
    /\ pre_products' = [pre_products EXCEPT ![r] = products]
    /\ pre_shopping' = [pre_shopping EXCEPT ![r] = shopping_items]
    /\ UNCHANGED <<existing, updated_product, item, clock, usable, fetched, ranked>>

CreateShoppingItem(r) ==
    /\ pc[r] = "idle"
    /\ UuidAvailable
    /\ \E p \in CreateShoppingItemParams, fail \in Failures, now \in Times :
       \E found \in [1..2 -> IF p.product_id = None THEN {None} ELSE ShoppingFindByProductId(shopping_items, p.product_id[1], p.user_id)] :
          LET out == CreateShoppingItemExecute(shopping_items, p, found, fail, NewUuid, now)
          IN  /\ shopping_items' = out.table
              /\ Complete(r, p, out)
    /\ UNCHANGED products

UpdateShoppingItemFrom(r, commands) ==
    /\ pc[r] = "idle"
    /\ \E p \in commands, fail \in Failures, now \in Times :
          LET out == UpdateShoppingItemExecute(shopping_items, p, fail, now)
          IN  /\ shopping_items' = out.table
              /\ Complete(r, p, out)
    /\ UNCHANGED products

UpdateShoppingItem(r) == UpdateShoppingItemFrom(r, UpdateShoppingItemParams)

DeleteShoppingItem(r) ==
    /\ pc[r] = "idle"
    /\ \E p \in DeleteShoppingItemParams, fail \in Failures :
          LET out == DeleteShoppingItemExecute(shopping_items, p, fail)
          IN  /\ shopping_items' = out.table
              /\ Complete(r, p, out)
    /\ UNCHANGED products

ClearBoughtItems(r) ==
    /\ pc[r] = "idle"
    /\ \E p \in ClearBoughtItemsParams, fail \in Failures :
          LET out == ClearBoughtItemsExecute(shopping_items, p, fail)
          IN  /\ shopping_items' = out.table
              /\ Complete(r, p, out)
    /\ UNCHANGED products

CreateProductFrom(r, commands, estimates) ==
    /\ pc[r] = "idle"
    /\ FreeProductIds # {}
    /\ \E p \in commands, estimate \in estimates, fail \in Failures, now \in Times :
          LET out == CreateProductExecute(products, p, estimate, fail, NewProductUuid, <<now, now>>)
          IN  /\ products' = out.table
              /\ Complete(r, p, out)
    /\ UNCHANGED shopping_items

DeleteProduct(r) ==
    /\ pc[r] = "idle"
    /\ \E p \in DeleteProductParams, fail \in Failures :
          LET out == DeleteProductExecute(products, p, fail)
          IN  /\ products' = out.table
              /\ Complete(r, p, out)
    /\ UNCHANGED shopping_items

GetProductById(r) ==
    /\ pc[r] = "idle"
    /\ \E p \in GetProductByIdParams, fail \in Failures :
          LET out == GetProductByIdExecute(products, p, fail)
          IN  /\ products' = out.table
              /\ Complete(r, p, out)
    /\ UNCHANGED shopping_items

EstimateExpiry(r) ==
    /\ pc[r] = "idle"
    /\ \E p \in EstimateExpiryParams, estimate \in Estimates, fail \in Failures, now \in Times :
          LET out == EstimateExpiryExecute(products, p, estimate, fail, now)
          IN  /\ products' = out.table
              /\ Complete(r, p, out)
    /\ UNCHANGED shopping_items

CreateProduct(r) == CreateProductFrom(r, CreateProductParams, Estimates)

ListCreateProduct(r) == CreateProductFrom(r, ListCreateProductParams, {None})

\* the product update, entered with one of the commands above
ProductUpdateStart(r) == UpdateStartFrom(r, ProductUpdateParams)

ListUpdateStart(r) == UpdateStartFrom(r, ListUpdateParams)

(***************************************************************************)
(* Specifications: any sequence of requests, one at a time, starting from  *)
(* one opened product stored for owner A.  ListSpec runs the shopping list *)
(* use cases with product create, update and delete; ProductSpec runs the  *)
(* product use cases.                                                      *)
(***************************************************************************)
StoreInit ==
    /\ products = [i \in ProductIds |->
          IF i = 1
          THEN [exists |-> TRUE, user_id |-> "A", name |-> OldName,
                status |-> "opened", location |-> None, quantity |-> None,
                expiry_date |-> None, estimated_expiry_date |-> None,
                outcome |-> None, created_at |-> 0, updated_at |-> 0]
          ELSE NoRow]
    /\ shopping_items = [i \in ItemIds |-> NoRow]
    /\ pc = [r \in Reqs |-> "idle"]
    /\ params = [r \in Reqs |-> Nil]
    /\ existing = [r \in Reqs |-> Nil]
    /\ updated_product = [r \in Reqs |-> Nil]
    /\ item = [r \in Reqs |-> Nil]
    /\ calls = [r \in Reqs |-> << >>]
    /\ log = [r \in Reqs |-> << >>]
    /\ result = [r \in Reqs |-> Nil]
    /\ pre_products = [r \in Reqs |-> Nil]
    /\ pre_shopping = [r \in Reqs |-> Nil]
    /\ clock = 0
    /\ usable = [r \in Reqs |-> Nil]
    /\ fetched = [r \in Reqs |-> Nil]
    /\ ranked = [r \in Reqs |-> Nil]

ListNext ==
    \E r \in SeqReqs :
        \/ CreateShoppingItem(r)
        \/ UpdateShoppingItem(r)
        \/ DeleteShoppingItem(r)
        \/ ClearBoughtItems(r)
        \/ ListCreateProduct(r)
        \/ DeleteProduct(r)
        \/ ListUpdateStart(r)
        \/ UpdateGetById(r)
        \/ UpdateProductSave(r)
        \/ UpdateFindByProductId(r)
        \/ UpdateShoppingSave(r)
        \/ UpdateDeleteByProductId(r)
        \/ UpdateReturn(r)

ListSpec == StoreInit /\ [][ListNext]_vars

ProductNext ==
    \E r \in SeqReqs :
        \/ CreateProduct(r)
        \/ DeleteProduct(r)
        \/ GetProductById(r)
        \/ EstimateExpiry(r)
        \/ ProductUpdateStart(r)
        \/ UpdateGetById(r)
        \/ UpdateProductSave(r)
        \/ UpdateFindByProductId(r)
        \/ UpdateShoppingSave(r)
        \/ UpdateDeleteByProductId(r)
        \/ UpdateReturn(r)

ProductSpec == StoreInit /\ [][ProductNext]_vars

\* the request in slot r has returned and was entered with this log line
Ran(r, entry) ==
    pc[r] = "done" /\ log[r] # << >> /\ log[r][1] = entry

(***************************************************************************)
(* C11: after any sequence of non-overlapping requests, those with failing *)
(* repository calls included, the shopping list holds at most one          *)
(* ShoppingItem per (owner, product_id) pair.                              *)
(***************************************************************************)
C11_AtMostOneItemPerOwnerAndProduct ==
    \A u \in Owners, i \in ProductIds :
        Cardinality(LinkedItems(shopping_items, i, u)) <= 1

(***************************************************************************)
(* C12: get_by_id and delete of a product stored for another owner than    *)
(* the caller return NotFound (unless a repository call itself fails), and *)
(* the products table is left as it was.                                   *)
(***************************************************************************)
\* the request in slot r addressed a product stored for another owner
ForeignProduct(r) ==
    IF pre_products[r][params[r].id] = NoRow THEN FALSE
    ELSE pre_products[r][params[r].id].user_id # params[r].user_id

C12_ForeignProductIsNotFound ==
    \A r \in Reqs :
        (/\ Ran(r, "info: Fetching product by id") \/ Ran(r, "info: Deleting product")
         /\ ForeignProduct(r)
         /\ result[r] # Err(<<"Repository", DatabaseError>>)) =>
            /\ result[r] = Err(<<"NotFound">>)
            /\ products = pre_products[r]

(***************************************************************************)
(* C13: a product create with a blank name returns NameEmpty, one with a   *)
(* non-blank name and an outcome under a status other than Finished        *)
(* returns OutcomeRequiresFinishedStatus; in both cases no repository or   *)
(* estimator call is made and the products table stays as it was.  Every   *)
(* other create succeeds -- as claimed: always; as the code has it: unless *)
(* one of its product saves fails, which it returns as a Repository error. *)
(***************************************************************************)
\* the create in slot r was rejected with error e before any call
RejectedBeforeCalls(r, e) ==
    /\ result[r] = Err(e)
    /\ calls[r] = << >>
    /\ products = pre_products[r]

\* what create does with a command that fails validation
CreateRejectsInvalid(r) ==
    /\ TrimIsEmpty(params[r].name) => RejectedBeforeCalls(r, <<"NameEmpty">>)
    /\ (/\ ~TrimIsEmpty(params[r].name)
        /\ params[r].outcome # None
        /\ params[r].status # "Finished") =>
            RejectedBeforeCalls(r, <<"OutcomeRequiresFinishedStatus">>)

ValidCreate(r) ==
    /\ ~TrimIsEmpty(params[r].name)
    /\ params[r].outcome = None \/ params[r].status = "Finished"

C13_CreateAsClaimed ==
    \A r \in Reqs :
        Ran(r, "info: Creating product") =>
            /\ CreateRejectsInvalid(r)
            /\ ValidCreate(r) => result[r].ok

C13_CreateValidation ==
    \A r \in Reqs :
        Ran(r, "info: Creating product") =>
            /\ CreateRejectsInvalid(r)
            /\ ValidCreate(r) =>
                  IF Failed(r, "product.save")
                  THEN result[r] = Err(<<"Repository", DatabaseError>>)
                  ELSE /\ result[r].ok
                       /\ products[result[r].value.id] # NoRow
                       /\ ProductIntoDomain(result[r].value.id, products[result[r].value.id]) = result[r].value

C13_Witness ==
    \E r \in Reqs :
        /\ Ran(r, "info: Creating product")
        /\ params[r].status = "Finished"
        /\ params[r].outcome = Some("Used")
        /\ result[r].ok
        /\ Len(calls[r]) = 3

(***************************************************************************)
(* C14: after any sequence of product requests (create, update and         *)
(* estimate-expiry among them) every stored product has a name that is     *)
(* non-empty after trimming and has an outcome only if its status is       *)
(* Finished.                                                               *)
(***************************************************************************)
StoredProducts == {i \in ProductIds : products[i] # NoRow}

C14_StoredProductsAreValid ==
    \A i \in StoredProducts :
        LET product == ProductIntoDomain(i, products[i])
        IN  /\ ~TrimIsEmpty(product.name)
            /\ product.outcome # None => product.status = "Finished"
            /\ products[i].outcome # None => products[i].status = "finished"

C14_Witness ==
    \E r \in Reqs :
        /\ Ran(r, "info: Estimating expiry date")
        /\ Succeeded(r, "product.save")
        /\ products[1] # NoRow /\ products[2] # NoRow
        /\ products[1].outcome = Some("used") /\ products[1].updated_at > 0
        /\ products[2].outcome = Some("used")
        /\ products[2].estimated_expiry_date = Some(2)

(***************************************************************************)
(* Urgency (domain/product/urgency.rs).  Every function that consults the  *)
(* clock takes the instant its Utc::now() returns as a parameter;          *)
(* get_urgency_level makes up to three readings: in is_expired, in         *)
(* days_until_expiry and in is_expiring_soon.                              *)
(***************************************************************************)
UrgencyLevel == {"Ok", "UseSoon", "UseToday", "WouldntTrust"}

EXPIRING_SOON_DAYS == 2

\* DateTime::date_naive: the calendar day an instant falls on
DateNaive(t) == t \div DayLen

\* faulty variant of EffectiveDate: the estimate wins over the explicit date
EffectiveDateEstimateFirst(product) ==
    IF product.estimated_expiry_date # None THEN product.estimated_expiry_date
    ELSE product.expiry_date

\* product.expiry_date.or(product.estimated_expiry_date)
EffectiveDate(product) ==
    IF product.expiry_date # None THEN product.expiry_date
    ELSE product.estimated_expiry_date

\* days_until_expiry
DaysUntilExpiry(product, now) ==
    IF EffectiveDate(product) = None THEN None
    ELSE Some(DateNaive(EffectiveDate(product)[1]) - DateNaive(now))

\* is_expired
IsExpired(product, now) ==
    IF EffectiveDate(product) = None THEN FALSE
    ELSE EffectiveDate(product)[1] < now

\* faulty variant of IsExpiringSoon: the window is one day short
IsExpiringSoonShort(product, now) ==
    IF DaysUntilExpiry(product, now) = None THEN FALSE
    ELSE DaysUntilExpiry(product, now)[1] \in 0..(EXPIRING_SOON_DAYS - 1)

\* is_expiring_soon
IsExpiringSoon(product, now) ==
    IF DaysUntilExpiry(product, now) = None THEN FALSE
    ELSE DaysUntilExpiry(product, now)[1] \in 0..EXPIRING_SOON_DAYS

\* get_urgency_level; now[1], now[2], now[3] are the readings of the clock
\* in is_expired, days_until_expiry and is_expiring_soon
GetUrgencyLevel(product, now) ==
    IF EffectiveDate(product) = None THEN "Ok"
    ELSE IF IsExpired(product, now[1]) THEN "WouldntTrust"
    ELSE IF DaysUntilExpiry(product, now[2]) = None THEN "Ok"
    ELSE IF DaysUntilExpiry(product, now[2])[1] = 0 THEN "UseToday"
    ELSE IF IsExpiringSoon(product, now[3]) THEN "UseSoon"
    ELSE "Ok"

\* successive readings of a clock that shows at least `from`
Readings(n, from) ==
    {now \in [1..n -> Instants] :
        /\ now[1] >= from
        /\ \A k \in 1..(n - 1) : now[k] <= now[k + 1]}

(***************************************************************************)
(* Specification: get_urgency_level is applied to a stored product with    *)
(* any explicit and estimated expiry date, at any time                     *)
(***************************************************************************)
OptionalInstants == {None} \cup {Some(t) : t \in Instants}

UrgencyInit ==
    /\ \E e \in OptionalInstants, est \in OptionalInstants :
          products = [i \in ProductIds |->
              IF i = 1
              THEN [exists |-> TRUE, user_id |-> "A", name |-> OldName,
                    status |-> "opened", location |-> None, quantity |-> None,
                    expiry_date |-> e, estimated_expiry_date |-> est,
                    outcome |-> None, created_at |-> 0, updated_at |-> 0]
              ELSE NoRow]
    /\ shopping_items = [i \in ItemIds |-> NoRow]
    /\ pc = [r \in Reqs |-> "idle"]
    /\ params = [r \in Reqs |-> Nil]
    /\ existing = [r \in Reqs |-> Nil]
    /\ updated_product = [r \in Reqs |-> Nil]
    /\ item = [r \in Reqs |-> Nil]
    /\ calls = [r \in Reqs |-> << >>]
    /\ log = [r \in Reqs |-> << >>]
    /\ result = [r \in Reqs |-> Nil]
    /\ pre_products = [r \in Reqs |-> Nil]
    /\ pre_shopping = [r \in Reqs |-> Nil]
    /\ clock \in Instants
    /\ usable = [r \in Reqs |-> Nil]
    /\ fetched = [r \in Reqs |-> Nil]
    /\ ranked = [r \in Reqs |-> Nil]

\* get_urgency_level(&product) for the stored product 1; the command records
\* the product and the readings of the clock the call made
UrgencyOfStored(r) ==
    /\ pc[r] = "idle"
    /\ \E now \in Readings(3, clock) :
          LET product == ProductIntoDomain(1, products[1])
          IN  /\ params' = [params EXCEPT ![r] = [product |-> product, now |-> now]]
              /\ result' = [result EXCEPT ![r] = GetUrgencyLevel(product, now)]
              /\ clock' = now[3]
    /\ pc' = [pc EXCEPT ![r] = "done"]
    /\ UNCHANGED <<products, shopping_items, existing, updated_product, item, calls, log, pre_products, pre_shopping, usable, fetched, ranked>>

UrgencyNext ==
    \E r \in SeqReqs :
        \/ UrgencyOfStored(r)
        \/ UpdateReturn(r)

UrgencySpec == UrgencyInit /\ [][UrgencyNext]_vars

(***************************************************************************)
(* C15: for every product and every current time (the clock showing the    *)
(* same instant throughout the call), get_urgency_level equals the         *)
(* reference rule: effective date = explicit expiry_date if present, else  *)
(* the estimate; no date gives Ok; effective instant strictly before now   *)
(* gives WouldntTrust; otherwise, with days = day of the effective date    *)
(* minus day of now, 0 gives UseToday, 1..2 UseSoon, anything else Ok.     *)
(***************************************************************************)
ReferenceDate(product) ==
    IF product.expiry_date # None THEN product.expiry_date
    ELSE product.estimated_expiry_date

ReferenceUrgency(product, now) ==
    LET date == ReferenceDate(product)
        days == (date[1] \div DayLen) - (now \div DayLen)
    IN  IF date = None THEN "Ok"
        ELSE IF date[1] < now THEN "WouldntTrust"
        ELSE IF days = 0 THEN "UseToday"
        ELSE IF 1 <= days /\ days <= 2 THEN "UseSoon"
        ELSE "Ok"

\* the call in slot r has returned and the clock stood still during it
AtOneInstant(r) ==
    pc[r] = "done" /\ params[r].now[1] = params[r].now[3]

C15_UrgencyMatchesReference ==
    \A r \in Reqs :
        AtOneInstant(r) =>
            result[r] = ReferenceUrgency(params[r].product, params[r].now[1])

C15_Witness ==
    \E r \in Reqs :
        /\ AtOneInstant(r)
        /\ params[r].product.expiry_date # None
        /\ params[r].product.estimated_expiry_date # None
        /\ params[r].product.estimated_expiry_date[1] < params[r].now[1]
        /\ result[r] = "UseSoon"

(***************************************************************************)
(* C16: classification by calendar day, whatever the time of day of now    *)
(* and of the expiry instant: an effective date 1 or 2 calendar days after *)
(* today gives UseSoon, 3 days after today gives Ok, yesterday gives       *)
(* WouldntTrust.  An effective date on today's calendar day gives -- as    *)
(* claimed: UseToday; as the code has it: UseToday when the instant is not *)
(* before now, WouldntTrust when it is.                                    *)
(***************************************************************************)
\* calendar days from the day of now to the day of the effective date of the
\* product classified in slot r
DaysAhead(r) ==
    (ReferenceDate(params[r].product)[1] \div DayLen) - (params[r].now[1] \div DayLen)

Dated(r) == AtOneInstant(r) /\ ReferenceDate(params[r].product) # None

OtherDaysClassified(r) ==
    /\ DaysAhead(r) \in {1, 2} => result[r] = "UseSoon"
    /\ DaysAhead(r) = 3 => result[r] = "Ok"
    /\ DaysAhead(r) = -1 => result[r] = "WouldntTrust"

C16_CalendarDayAsClaimed ==
    \A r \in Reqs :
        Dated(r) =>
            /\ DaysAhead(r) = 0 => result[r] = "UseToday"
            /\ OtherDaysClassified(r)

C16_CalendarDayClassification ==
    \A r \in Reqs :
        Dated(r) =>
            /\ DaysAhead(r) = 0 =>
                  result[r] = IF ReferenceDate(params[r].product)[1] < params[r].now[1]
                              THEN "WouldntTrust" ELSE "UseToday"
            /\ OtherDaysClassified(r)

C16_Witness ==
    \E r \in Reqs :
        /\ Dated(r)
        /\ DaysAhead(r) = 0
        /\ ReferenceDate(params[r].product)[1] > params[r].now[1]
        /\ result[r] = "UseToday"

(***************************************************************************)
(* Suggestions: the active products, the filter and the sort of            *)
(* GenerateSuggestionsUseCaseImpl::execute, and the generator              *)
(***************************************************************************)
\* ids of the rows matched by WHERE status != 'finished'; the statement has
\* no owner predicate, so user_id does not take part
ActiveProducts(table, user_id) ==
    {i \in DOMAIN table : IF table[i] = NoRow THEN FALSE
                          ELSE table[i].status # "finished"}

\* the orders in which ORDER BY created_at DESC may return the rows ids
NewestFirst(table, ids) ==
    {order \in [1..Cardinality(ids) -> ids] :
        /\ \A j, k \in 1..Cardinality(ids) : j # k => order[j] # order[k]
        /\ \A j, k \in 1..Cardinality(ids) :
              j < k => table[order[j]].created_at >= table[order[k]].created_at}

\* get_active_products: the lists fetch_all may return
ProductGetActiveProducts(table, user_id) ==
    {[k \in 1..Len(order) |-> ProductIntoDomain(order[k], table[order[k]])] :
        order \in NewestFirst(table, ActiveProducts(table, user_id))}

\* products.into_iter().filter(|p| !is_expired(p)).collect()
RetainUsable(list, now) == SelectSeq(list, LAMBDA p : ~IsExpired(p, now))

\* faulty variant of UrgencyOrder: fresh products come first
UrgencyOrderFreshFirst(level) ==
    CASE level = "Ok" -> 0
      [] level = "UseSoon" -> 1
      [] level = "UseToday" -> 2
      [] level = "WouldntTrust" -> 3

\* the closure urgency_order
UrgencyOrder(level) ==
    CASE level = "UseToday" -> 0
      [] level = "UseSoon" -> 1
      [] level = "Ok" -> 2
      [] level = "WouldntTrust" -> 3

\* the key sort_by compares: urgency_order(&get_urgency_level(p))
SortKey(p, now) == UrgencyOrder(GetUrgencyLevel(p, <<now, now, now>>))

\* faulty variant of SortByUrgency: products of equal urgency change places
SortByUrgencyUnstable(list, now) ==
    LET Rev(q) == [k \in 1..Len(q) |-> q[Len(q) + 1 - k]]
    IN  Rev(SelectSeq(list, LAMBDA p : SortKey(p, now) = 0))
        \o Rev(SelectSeq(list, LAMBDA p : SortKey(p, now) = 1))
        \o Rev(SelectSeq(list, LAMBDA p : SortKey(p, now) = 2))
        \o Rev(SelectSeq(list, LAMBDA p : SortKey(p, now) = 3))

\* usable.sort_by(..): slice::sort_by is stable, so the result is the products
\* of key 0 in their order, then those of key 1, of key 2, of key 3
SortByUrgency(list, now) ==
    SelectSeq(list, LAMBDA p : SortKey(p, now) = 0)
        \o SelectSeq(list, LAMBDA p : SortKey(p, now) = 1)
        \o SelectSeq(list, LAMBDA p : SortKey(p, now) = 2)
        \o SelectSeq(list, LAMBDA p : SortKey(p, now) = 3)

\* the lists of suggestions parse_response may build
Suggestions ==
    UNION {[1..n -> {"suggestion"}] : n \in 0..MaxSuggestions}

\* what SuggestionGeneratorOpenAI::generate returns: a list of suggestions, or
\* GenerationFailed for a failed request, status, body or parse
GeneratorResults(list, limit) ==
    IF list = << >> THEN {Ok(<< >>)}
    ELSE {Ok(suggestions) : suggestions \in Suggestions} \cup {Err(<<"GenerationFailed">>)}

\* faulty variant of MapFetchError: the repository error is passed on
MapFetchErrorPassing(e) == <<"Repository", e>>

\* map_err(|_| SuggestionError::GenerationFailed)
MapFetchError(e) == <<"GenerationFailed">>

Limits == {1, 2}

GenerateSuggestionsParams ==
    { [user_id |-> u, limit |-> l] : u \in Owners, l \in Limits }

\* entry: the info log, then the fetch of the active products is issued
GenerateStart(r) ==
    /\ pc[r] = "idle"
    /\ \E p \in GenerateSuggestionsParams :
          params' = [params EXCEPT ![r] = p]
    /\ log' = [log EXCEPT ![r] = <<"info: Generating suggestions">>]
    /\ calls' = [calls EXCEPT ![r] = << >>]
    /\ result' = [result EXCEPT ![r] = Nil]
    /\ pc' = [pc EXCEPT ![r] = "get_active_products"]
    /\ pre_products' = [pre_products EXCEPT ![r] = products]
    /\ pre_shopping' = [pre_shopping EXCEPT ![r] = shopping_items]
    /\ UNCHANGED <<products, shopping_items, existing, updated_product, item, clock, usable, fetched, ranked>>

\* repository.get_active_products(&params.user_id) completes; the expired
\* products are filtered out and an empty rest is returned at once
GenerateGetActiveProducts(r) ==
    /\ pc[r] = "get_active_products"
    /\ \E fail \in BOOLEAN :
       \E found \in ProductGetActiveProducts(products, params[r].user_id) :
          /\ calls' = [calls EXCEPT ![r] = Append(@, Call("product.get_active_products", <<params[r].user_id>>, ~fail))]
          /\ IF fail
             THEN /\ result' = [result EXCEPT ![r] = Err(MapFetchError(DatabaseError))]
                  /\ pc' = [pc EXCEPT ![r] = "done"]
                  /\ UNCHANGED <<fetched, usable>>
             ELSE /\ fetched' = [fetched EXCEPT ![r] = [products |-> found, now |-> clock]]
                  /\ usable' = [usable EXCEPT ![r] = RetainUsable(found, clock)]
                  /\ IF RetainUsable(found, clock) = << >>
                     THEN /\ result' = [result EXCEPT ![r] = Ok(<< >>)]
                          /\ pc' = [pc EXCEPT ![r] = "done"]
                     ELSE /\ pc' = [pc EXCEPT ![r] = "sort"]
                          /\ UNCHANGED result
    /\ UNCHANGED <<products, shopping_items, params, existing, updated_product, item, log, pre_products, pre_shopping, clock, ranked>>

\* usable.sort_by(..), then generator.generate(&usable, params.limit) is issued
GenerateSort(r) ==
    /\ pc[r] = "sort"
    /\ usable' = [usable EXCEPT ![r] = SortByUrgency(@, clock)]
    /\ ranked' = [ranked EXCEPT ![r] =
          [levels |-> [k \in 1..Len(usable[r]) |-> GetUrgencyLevel(SortByUrgency(usable[r], clock)[k], <<clock, clock, clock>>)],
           now |-> clock]]
    /\ pc' = [pc EXCEPT ![r] = "generate"]
    /\ UNCHANGED <<products, shopping_items, params, existing, updated_product, item, calls, log, result, pre_products, pre_shopping, clock, fetched>>

\* generator.generate(&usable, params.limit).await? completes
GenerateGenerated(r) ==
    /\ pc[r] = "generate"
    /\ \E res \in GeneratorResults(usable[r], params[r].limit) :
          /\ calls' = [calls EXCEPT ![r] = Append(@, Call("generator.generate", <<usable[r], params[r].limit>>, res.ok))]
          /\ result' = [result EXCEPT ![r] = res]
          /\ log' = [log EXCEPT ![r] = IF res.ok THEN Append(@, "info: Generated suggestions") ELSE @]
    /\ pc' = [pc EXCEPT ![r] = "done"]
    /\ UNCHANGED <<products, shopping_items, params, existing, updated_product, item, pre_products, pre_shopping, clock, usable, fetched, ranked>>

\* time passes, up to the start of the next calendar day
Tick ==
    /\ clock < 2 * DayLen
    /\ clock' = clock + 1
    /\ UNCHANGED <<products, shopping_items, pc, params, existing, updated_product, item, calls, log, result, pre_products, pre_shopping, usable, fetched, ranked>>

(***************************************************************************)
(* Specification: suggestions are generated for either owner, one request  *)
(* at a time, over any stored products, while time passes.  It is the      *)
(* start of day 1; a stored product of owner A has no date, or expires at  *)
(* the end of yesterday, now, or at the start of tomorrow; owner B's       *)
(* product and the finished product expire tomorrow.  Product i was        *)
(* created at time i.                                                      *)
(***************************************************************************)
GenProductIds == 1..MaxProducts

GenRow(user_id, status, expiry_date) ==
    [exists |-> TRUE, user_id |-> user_id, name |-> OldName,
     status |-> status, location |-> None, quantity |-> None,
     expiry_date |-> expiry_date, estimated_expiry_date |-> None,
     outcome |-> None]

\* the row stored under id i
GenStored(i, row) ==
    IF row = NoRow THEN NoRow
    ELSE row @@ [created_at |-> i, updated_at |-> i]

GenRows ==
    {NoRow, GenRow("B", "opened", Some(2 * DayLen)), GenRow("A", "finished", Some(2 * DayLen))}
        \cup {GenRow("A", "opened", d) : d \in {None, Some(DayLen - 1), Some(DayLen), Some(2 * DayLen)}}

GenerateInit ==
    /\ \E rows \in [GenProductIds -> GenRows] :
          products = [i \in GenProductIds |-> GenStored(i, rows[i])]
    /\ shopping_items = [i \in ItemIds |-> NoRow]
    /\ pc = [r \in Reqs |-> "idle"]
    /\ params = [r \in Reqs |-> Nil]
    /\ existing = [r \in Reqs |-> Nil]
    /\ updated_product = [r \in Reqs |-> Nil]
    /\ item = [r \in Reqs |-> Nil]
    /\ calls = [r \in Reqs |-> << >>]
    /\ log = [r \in Reqs |-> << >>]
    /\ result = [r \in Reqs |-> Nil]
    /\ pre_products = [r \in Reqs |-> Nil]
    /\ pre_shopping = [r \in Reqs |-> Nil]
    /\ clock = DayLen
    /\ usable = [r \in Reqs |-> Nil]
    /\ fetched = [r \in Reqs |-> Nil]
    /\ ranked = [r \in Reqs |-> Nil]

GenerateNext ==
    \/ Tick
    \/ \E r \in SeqReqs :
        \/ GenerateStart(r)
        \/ GenerateGetActiveProducts(r)
        \/ GenerateSort(r)
        \/ GenerateGenerated(r)
        \/ UpdateReturn(r)

GenerateSpec == GenerateInit /\ [][GenerateNext]_vars

(***************************************************************************)
(* Vocabulary of the properties of generate                                *)
(***************************************************************************)
ListIds(list) == {list[k].id : k \in 1..Len(list)}

\* the lists handed to the generator by the calls of request r made so far
HandedOver(r) ==
    {calls[r][k].args[1] : k \in {j \in 1..Len(calls[r]) : calls[r][j].op = "generator.generate"}}

\* the effective expiry instant of a stored row is before instant now
RowExpired(row, now) ==
    LET date == IF row.expiry_date # None THEN row.expiry_date
                ELSE row.estimated_expiry_date
    IN  IF date = None THEN FALSE ELSE date[1] < now

\* ids of the products stored for the owner request r was issued for that
\* are not finished and were not expired when the request filtered
OwnersUsable(r) ==
    {i \in DOMAIN pre_products[r] :
        IF pre_products[r][i] = NoRow THEN FALSE
        ELSE /\ pre_products[r][i].user_id = params[r].user_id
             /\ pre_products[r][i].status # "finished"
             /\ ~RowExpired(pre_products[r][i], fetched[r].now)}

(***************************************************************************)
(* C17: once the fetch of a generate request has succeeded, the products   *)
(* it keeps and hands to the generator are exactly the products of the     *)
(* owner that are not finished and not expired; when there is none, the    *)
(* generator is never invoked and the request returns Ok of an empty list. *)
(***************************************************************************)
C17_HandsOwnersUsableProducts ==
    \A r \in Reqs :
        fetched[r] # Nil =>
            IF OwnersUsable(r) = {}
            THEN /\ pc[r] = "done"
                 /\ result[r] = Ok(<< >>)
                 /\ HandedOver(r) = {}
            ELSE /\ ListIds(usable[r]) = OwnersUsable(r)
                 /\ Len(usable[r]) = Cardinality(OwnersUsable(r))
                 /\ \A list \in HandedOver(r) : ListIds(list) = OwnersUsable(r)

(***************************************************************************)
(* C18: the list generate hands to the generator holds the products that   *)
(* passed the filter, each once, in the order of urgency rank at the time  *)
(* of the sort (UseToday before UseSoon before Ok, anything else last),    *)
(* and two products of equal rank are in the order in which the            *)
(* repository returned them.                                               *)
(***************************************************************************)
RankOf(level) ==
    CASE level = "UseToday" -> 0
      [] level = "UseSoon" -> 1
      [] level = "Ok" -> 2
      [] OTHER -> 3

\* the products of the fetched list that were not expired at the filter
Filtered(r) ==
    SelectSeq(fetched[r].products, LAMBDA p : ~(ReferenceUrgency(p, fetched[r].now) = "WouldntTrust"))

\* position of the product with this id in a list
PositionIn(list, id) == CHOOSE k \in 1..Len(list) : list[k].id = id

RankAtSort(r, k) == RankOf(ReferenceUrgency(usable[r][k], ranked[r].now))

C18_SortedStablePermutation ==
    \A r \in Reqs :
        ranked[r] # Nil =>
            /\ Len(usable[r]) = Len(Filtered(r))
            /\ \A k \in 1..Len(usable[r]) :
                  \E j \in 1..Len(Filtered(r)) : Filtered(r)[j] = usable[r][k]
            /\ \A j, k \in 1..Len(usable[r]) :
                  j < k =>
                     /\ usable[r][j].id # usable[r][k].id
                     /\ RankAtSort(r, j) <= RankAtSort(r, k)
                     /\ RankAtSort(r, j) = RankAtSort(r, k) =>
                           PositionIn(Filtered(r), usable[r][j].id) < PositionIn(Filtered(r), usable[r][k].id)
            /\ \A list \in HandedOver(r) : list = usable[r]

C18_Witness ==
    \E r \in Reqs :
        /\ ranked[r] # Nil
        /\ HandedOver(r) # {}
        /\ Len(usable[r]) = 3
        /\ usable[r] # Filtered(r)
        /\ ranked[r].levels = <<"UseToday", "UseSoon", "UseSoon">>
        /\ usable[r][2].user_id # usable[r][3].user_id

(***************************************************************************)
(* C19: no product generate hands to the generator has urgency             *)
(* WouldntTrust at the time it is ranked and handed over, also when time   *)
(* has passed since the filter.                                            *)
(***************************************************************************)
C19_NoExpiredProductHandedOver ==
    \A r \in Reqs :
        ranked[r] # Nil =>
            \A k \in 1..Len(usable[r]) :
                /\ ranked[r].levels[k] # "WouldntTrust"
                /\ ReferenceUrgency(usable[r][k], ranked[r].now) # "WouldntTrust"

C21_ResultWithinLimit ==
    \A r \in Reqs :
        (pc[r] = "done" /\ Ran(r, "info: Generating suggestions") /\ result[r].ok) =>
            Len(result[r].value) <= params[r].limit

(***************************************************************************)
(* Specification: shopping items are updated for either owner, one request *)
(* at a time.  The list starts with an unbought item of owner A that is    *)
(* linked to product 1 and an unlinked, unbought item of owner B, both     *)
(* created at time 0.                                                      *)
(***************************************************************************)
NewName == <<" ", "m">>

\* the commands of the shopping item update: every id, both owners, a name
\* that is absent, blank or new, a flag that is absent or set
ShoppingUpdateParams ==
    { [id |-> i, user_id |-> u, name |-> n, is_bought |-> b] :
        i \in ItemIds, u \in Owners, n \in {None, Some(BlankName), Some(NewName)},
        b \in {None, Some(TRUE)} }

ShoppingUpdateShoppingItem(r) == UpdateShoppingItemFrom(r, ShoppingUpdateParams)

ShoppingInit ==
    /\ products = [i \in ProductIds |-> NoRow]
    /\ shopping_items = [i \in ItemIds |->
          IF i = 1
          THEN [exists |-> TRUE, user_id |-> "A", name |-> OldName,
                product_id |-> Some(1), is_bought |-> FALSE,
                created_at |-> 0, updated_at |-> 0]
          ELSE IF i = 2
          THEN [exists |-> TRUE, user_id |-> "B", name |-> OldName,
                product_id |-> None, is_bought |-> FALSE,
                created_at |-> 0, updated_at |-> 0]
          ELSE NoRow]
    /\ pc = [r \in Reqs |-> "idle"]
    /\ params = [r \in Reqs |-> Nil]
    /\ existing = [r \in Reqs |-> Nil]
    /\ updated_product = [r \in Reqs |-> Nil]
    /\ item = [r \in Reqs |-> Nil]
    /\ calls = [r \in Reqs |-> << >>]
    /\ log = [r \in Reqs |-> << >>]
    /\ result = [r \in Reqs |-> Nil]
    /\ pre_products = [r \in Reqs |-> Nil]
    /\ pre_shopping = [r \in Reqs |-> Nil]
    /\ clock = 0
    /\ usable = [r \in Reqs |-> Nil]
    /\ fetched = [r \in Reqs |-> Nil]
    /\ ranked = [r \in Reqs |-> Nil]

ShoppingNext ==
    \E r \in SeqReqs :
        \/ ShoppingUpdateShoppingItem(r)
        \/ UpdateReturn(r)

ShoppingSpec == ShoppingInit /\ [][ShoppingNext]_vars

(***************************************************************************)
(* Vocabulary of the properties of the shopping item use cases             *)
(***************************************************************************)
\* the row the request in slot r addressed, as it was stored at its start
Addressed(r) == pre_shopping[r][params[r].id]

\* that row exists and is stored for the commanding owner
KnownItem(r) ==
    IF Addressed(r) = NoRow THEN FALSE
    ELSE Addressed(r).user_id = params[r].user_id

\* the request in slot r left the shopping list as it found it
NothingSaved(r) ==
    /\ shopping_items = pre_shopping[r]
    /\ ~Succeeded(r, "shopping.save")

\* the command carries a name that is empty or whitespace only
BlankNamePresent(r) ==
    IF params[r].name = None THEN FALSE ELSE TrimIsEmpty(params[r].name[1])

\* no row appeared or vanished, no row changed owner, product link or
\* creation time, and only the addressed row changed at all
IdentityKept(r) ==
    \A i \in ItemIds :
        /\ (pre_shopping[r][i] = NoRow) <=> (shopping_items[i] = NoRow)
        /\ i # params[r].id => shopping_items[i] = pre_shopping[r][i]
        /\ pre_shopping[r][i] # NoRow =>
              /\ shopping_items[i].user_id = pre_shopping[r][i].user_id
              /\ shopping_items[i].product_id = pre_shopping[r][i].product_id
              /\ shopping_items[i].created_at = pre_shopping[r][i].created_at

\* absent fields of the command keep the stored values
AbsentKept(r) ==
    Addressed(r) # NoRow =>
        /\ params[r].name = None =>
              shopping_items[params[r].id].name = Addressed(r).name
        /\ params[r].is_bought = None =>
              shopping_items[params[r].id].is_bought = Addressed(r).is_bought

\* a successful update returns the item as it is stored afterwards
ReturnsStored(r) ==
    result[r].ok =>
        /\ KnownItem(r)
        /\ result[r].value = ShoppingIntoDomain(params[r].id, shopping_items[params[r].id])
        /\ params[r].name # None => result[r].value.name = params[r].name[1]
        /\ params[r].is_bought # None => result[r].value.is_bought = params[r].is_bought[1]

(***************************************************************************)
(* C22 as stated: a ShoppingItem update with a present empty or            *)
(* whitespace-only name fails with NameEmpty (unless a repository call     *)
(* itself fails) and saves nothing.                                        *)
(***************************************************************************)
C22_UpdateAsClaimed ==
    \A r \in Reqs :
        (/\ Ran(r, "info: Updating shopping item")
         /\ BlankNamePresent(r)
         /\ result[r] # Err(<<"Repository", DatabaseError>>)) =>
            /\ result[r] = Err(<<"NameEmpty">>)
            /\ NothingSaved(r)

(***************************************************************************)
(* C22: a ShoppingItem update never changes an item's id, owner,           *)
(* product_id or created_at; an absent name keeps the stored name and an   *)
(* absent is_bought keeps the stored flag; an unknown id for the owner     *)
(* fails with NotFound, whatever the name, and a present empty or          *)
(* whitespace-only name for a known item fails with NameEmpty (unless the  *)
(* lookup itself fails); both save nothing.                                *)
(***************************************************************************)
C22_UpdateShoppingItem ==
    \A r \in Reqs :
        Ran(r, "info: Updating shopping item") =>
            /\ IdentityKept(r)
            /\ AbsentKept(r)
            /\ ReturnsStored(r)
            /\ Failed(r, "shopping.get_by_id") => NothingSaved(r)
            /\ (~KnownItem(r) /\ result[r] # Err(<<"Repository", DatabaseError>>)) =>
                  /\ result[r] = Err(<<"NotFound">>)
                  /\ NothingSaved(r)
            /\ (KnownItem(r) /\ BlankNamePresent(r) /\ result[r] # Err(<<"Repository", DatabaseError>>)) =>
                  /\ result[r] = Err(<<"NameEmpty">>)
                  /\ NothingSaved(r)

C22_Witness ==
    \E r \in Reqs :
        /\ Ran(r, "info: Updating shopping item")
        /\ KnownItem(r)
        /\ params[r].name = Some(NewName) /\ params[r].is_bought = None
        /\ Addressed(r).is_bought
        /\ result[r].ok
        /\ shopping_items[params[r].id].name = NewName
        /\ shopping_items[params[r].id].is_bought
        /\ shopping_items[params[r].id].created_at # shopping_items[params[r].id].updated_at

(***************************************************************************)
(* C23: when an item linked to the given product_id is already stored for  *)
(* the owner, ShoppingItem create saves nothing and what it returns is     *)
(* that stored item (same id), so a second create for the same owner and   *)
(* product leaves one item.                                                *)
(***************************************************************************)
C23_CreateIdempotentPerProduct ==
    \A r \in Reqs :
        (/\ Ran(r, "info: Creating shopping item")
         /\ params[r].product_id # None
         /\ LinkedItems(pre_shopping[r], params[r].product_id[1], params[r].user_id) # {}) =>
            /\ NothingSaved(r)
            /\ result[r].ok =>
                  result[r].value.id \in LinkedItems(pre_shopping[r], params[r].product_id[1], params[r].user_id)

(***************************************************************************)
(* Specification: products are created and deleted, one request at a time, *)
(* starting from empty tables.  A create command has a valid or a blank    *)
(* name and may carry an expiry date and an estimated expiry date; the     *)
(* estimator answers with a later date or with none.                       *)
(***************************************************************************)
CreateEstimateParams ==
    { [name |-> n, status |-> "Opened", location |-> None, quantity |-> None,
       expiry_date |-> e, estimated_expiry_date |-> d, outcome |-> None] :
        n \in {OldName, BlankName}, e \in {None, Some(1)}, d \in {None, Some(1)} }

CreateWithEstimate(r) == CreateProductFrom(r, CreateEstimateParams, Estimates)

CreateInit ==
    /\ products = [i \in ProductIds |-> NoRow]
    /\ shopping_items = [i \in ItemIds |-> NoRow]
    /\ pc = [r \in Reqs |-> "idle"]
    /\ params = [r \in Reqs |-> Nil]
    /\ existing = [r \in Reqs |-> Nil]
    /\ updated_product = [r \in Reqs |-> Nil]
    /\ item = [r \in Reqs |-> Nil]
    /\ calls = [r \in Reqs |-> << >>]
    /\ log = [r \in Reqs |-> << >>]
    /\ result = [r \in Reqs |-> Nil]
    /\ pre_products = [r \in Reqs |-> Nil]
    /\ pre_shopping = [r \in Reqs |-> Nil]
    /\ clock = 0
    /\ usable = [r \in Reqs |-> Nil]
    /\ fetched = [r \in Reqs |-> Nil]
    /\ ranked = [r \in Reqs |-> Nil]

CreateNext ==
    \E r \in SeqReqs :
        \/ CreateWithEstimate(r)
        \/ DeleteProduct(r)
        \/ UpdateReturn(r)

CreateSpec == CreateInit /\ [][CreateNext]_vars

(***************************************************************************)
(* Vocabulary of the properties of product create                          *)
(***************************************************************************)
\* the k-th call of request r was made and was a call of op
CallIs(r, k, op) == k <= Len(calls[r]) /\ calls[r][k].op = op

Logged(r, entry) == \E k \in 1..Len(log[r]) : log[r][k] = entry

\* the number of product saves request r issued
SavesIssued(r) == Cardinality({k \in 1..Len(calls[r]) : calls[r][k].op = "product.save"})

\* the id request r generated for its product (bound by its first save)
CreatedId(r) == calls[r][1].args[1]

\* the estimator is the second call, made after a first save that succeeded
EstimatorConsulted(r) == "estimator.estimate_expiry_date" \in CallOps(r)

ConsultedAfterFirstSave(r) ==
    /\ CallIs(r, 1, "product.save") /\ calls[r][1].ok
    /\ CallIs(r, 2, "estimator.estimate_expiry_date")
    /\ \A k \in 1..Len(calls[r]) : calls[r][k].op = "estimator.estimate_expiry_date" => k = 2

\* a second save exactly when the estimator returned a date; when it
\* succeeded the estimate is what is stored and returned
SecondSaveOnEstimate(r) ==
    /\ Logged(r, "info: Estimated expiry") <=> CallIs(r, 3, "product.save")
    /\ SavesIssued(r) = (IF Logged(r, "info: Estimated expiry") THEN 2 ELSE 1)
    /\ (CallIs(r, 3, "product.save") /\ calls[r][3].ok) =>
          /\ result[r].ok
          /\ result[r].value.estimated_expiry_date \in Estimates \ {None}
          /\ products[CreatedId(r)].estimated_expiry_date = result[r].value.estimated_expiry_date

(***************************************************************************)
(* C24 as stated: when the estimator returns no date, Product create       *)
(* succeeds with a single save and an empty estimated_expiry_date.         *)
(***************************************************************************)
C24_CreateEstimateAsClaimed ==
    \A r \in Reqs :
        (Ran(r, "info: Creating product") /\ Logged(r, "info: No expiry estimation available")) =>
            /\ result[r].ok
            /\ SavesIssued(r) = 1
            /\ result[r].value.estimated_expiry_date = None
            /\ products[CreatedId(r)].estimated_expiry_date = None

(***************************************************************************)
(* C24: once its first save has succeeded, Product create consults the     *)
(* expiry estimator if and only if the command gave no expiry_date, and    *)
(* never before that save; it issues a second save, with                   *)
(* estimated_expiry_date set to the estimate, exactly when the estimator   *)
(* returns a date; when the estimator returns no date create succeeds with *)
(* a single save and the estimated_expiry_date of the command.             *)
(***************************************************************************)
C24_CreateEstimate ==
    \A r \in Reqs :
        Ran(r, "info: Creating product") =>
            /\ EstimatorConsulted(r) <=>
                  (Succeeded(r, "product.save") /\ params[r].expiry_date = None)
            /\ EstimatorConsulted(r) =>
                  /\ ConsultedAfterFirstSave(r)
                  /\ SecondSaveOnEstimate(r)
                  /\ Logged(r, "info: Estimated expiry") # Logged(r, "info: No expiry estimation available")
            /\ ~EstimatorConsulted(r) => SavesIssued(r) <= 1
            /\ Logged(r, "info: No expiry estimation available") =>
                  /\ result[r].ok
                  /\ SavesIssued(r) = 1
                  /\ result[r].value.estimated_expiry_date = params[r].estimated_expiry_date
                  /\ products[CreatedId(r)].estimated_expiry_date = params[r].estimated_expiry_date

C24_Witness ==
    \E r \in Reqs :
        /\ Ran(r, "info: Creating product")
        /\ params[r].expiry_date = None
        /\ params[r].estimated_expiry_date = Some(1)
        /\ CallIs(r, 3, "product.save") /\ calls[r][3].ok
        /\ result[r].ok
        /\ products[CreatedId(r)].estimated_expiry_date = Some(2)

(***************************************************************************)
(* C25: whenever Product create returns an error, the products table is    *)
(* as it was before the request: no product has been persisted by it.      *)
(***************************************************************************)
C25_CreateErrorPersistsNothing ==
    \A r \in Reqs :
        (Ran(r, "info: Creating product") /\ ~result[r].ok) =>
            products = pre_products[r]

(***************************************************************************)
(* Specification: product 1, stored opened for owner A with an empty       *)
(* shopping list, is updated by either owner, one request at a time; the   *)
(* lookup and the product save may fail, every shopping list call          *)
(* succeeds.                                                               *)
(***************************************************************************)
\* the call that completes in this step returns Ok
LastCallSucceeds(r) == calls'[r][Len(calls'[r])].ok

SyncFindByProductId(r) == UpdateFindByProductId(r) /\ LastCallSucceeds(r)

SyncShoppingSave(r) == UpdateShoppingSave(r) /\ LastCallSucceeds(r)

SyncDeleteByProductId(r) == UpdateDeleteByProductId(r) /\ LastCallSucceeds(r)

SyncNext ==
    \E r \in SeqReqs :
        \/ ListUpdateStart(r)
        \/ UpdateGetById(r)
        \/ UpdateProductSave(r)
        \/ SyncFindByProductId(r)
        \/ SyncShoppingSave(r)
        \/ SyncDeleteByProductId(r)
        \/ UpdateReturn(r)

SyncSpec == StoreInit /\ [][SyncNext]_vars

(***************************************************************************)
(* C26: for a product created in a non-Finished status whose shopping      *)
(* items are changed only through Product update, with every shopping list *)
(* call succeeding: after every completed update a ShoppingItem linked to  *)
(* the product exists for the product's owner if and only if the persisted *)
(* status of the product is Finished.                                      *)
(***************************************************************************)
C26_ItemExistsIffFinished ==
    \A r \in Reqs :
        Ran(r, "info: Updating product") =>
            \A i \in ProductIds :
                products[i] # NoRow =>
                    ((LinkedItems(shopping_items, i, products[i].user_id) # {})
                        <=> (products[i].status = "finished"))

(***************************************************************************)
(* Specification: two tasks update product 1 for its owner A at the same   *)
(* time; their steps interleave at every repository call, and every        *)
(* repository call succeeds.  The product starts opened with an empty      *)
(* shopping list.                                                          *)
(***************************************************************************)
\* the commands of the interleaved updates: the owner keeps the name and
\* moves product 1 into or out of Finished
ConcurrentUpdateParams ==
    { p \in UpdateProductParams :
        /\ p.id = 1
        /\ p.user_id = "A"
        /\ p.name = OldName
        /\ p.status \in {"Opened", "Finished"}
        /\ p.location = None /\ p.quantity = None
        /\ p.expiry_date = None /\ p.estimated_expiry_date = None
        /\ p.outcome = None }

ConcurrentUpdateStart(r) == UpdateStartFrom(r, ConcurrentUpdateParams)

ConcurrentGetById(r) == UpdateGetById(r) /\ LastCallSucceeds(r)

ConcurrentProductSave(r) == UpdateProductSave(r) /\ LastCallSucceeds(r)

ConcurrentFindByProductId(r) == UuidAvailable /\ SyncFindByProductId(r)

ConcurrentNext ==
    \E r \in Reqs :
        \/ ConcurrentUpdateStart(r)
        \/ ConcurrentGetById(r)
        \/ ConcurrentProductSave(r)
        \/ ConcurrentFindByProductId(r)
        \/ SyncShoppingSave(r)
        \/ SyncDeleteByProductId(r)
        \/ UpdateReturn(r)

ConcurrentSpec == StoreInit /\ [][ConcurrentNext]_vars

(***************************************************************************)
(* C27: when two update requests that both move the same product into      *)
(* Finished interleave at their repository calls, at most one ShoppingItem *)
(* linked to that product exists for the owner once both have completed.   *)
(***************************************************************************)
C27_ConcurrentFinishOneItem ==
    (/\ \A r \in Reqs : pc[r] = "done" /\ result[r].ok /\ IntoFinished(r)
     /\ \A r, q \in Reqs : params[r].id = params[q].id /\ params[r].user_id = params[q].user_id) =>
        \A r \in Reqs :
            Cardinality(LinkedItems(shopping_items, params[r].id, params[r].user_id)) <= 1

(***************************************************************************)
(* C28: when two update requests for the same product interleave at their  *)
(* repository calls, with all repository calls succeeding, then once both  *)
(* have completed a ShoppingItem linked to the product exists if and only  *)
(* if the status finally persisted for the product is Finished.            *)
(***************************************************************************)
C28_ConcurrentItemIffFinished ==
    (/\ \A r \in Reqs : pc[r] = "done" /\ result[r].ok /\ Ran(r, "info: Updating product")
     /\ \A r, q \in Reqs : params[r].id = params[q].id /\ params[r].user_id = params[q].user_id) =>
        \A r \in Reqs :
            (LinkedItems(shopping_items, params[r].id, params[r].user_id) # {})
                <=> (products[params[r].id].status = "finished")

(***************************************************************************)
(* EstimateExpiryUseCaseImpl::execute, step by step: the task is suspended *)
(* at the lookup, at the estimator and at the save, and other tasks run in *)
(* between.  existing[r] holds the product the lookup returned,            *)
(* updated_product[r] that product with the estimate.                      *)
(***************************************************************************)
\* entry: the info log, then the lookup is issued
EstimateStart(r) ==
    /\ pc[r] = "idle"
    /\ \E p \in EstimateExpiryParams :
          params' = [params EXCEPT ![r] = p]
    /\ log' = [log EXCEPT ![r] = <<"info: Estimating expiry date">>]
    /\ calls' = [calls EXCEPT ![r] = << >>]
    /\ result' = [result EXCEPT ![r] = Nil]
    /\ pc' = [pc EXCEPT ![r] = "estimate_get_by_id"]
    /\ pre_products' = [pre_products EXCEPT ![r] = products]
    /\ pre_shopping' = [pre_shopping EXCEPT ![r] = shopping_items]
    /\ UNCHANGED <<products, shopping_items, existing, updated_product, item, clock, usable, fetched, ranked>>

\* repository.get_by_id(params.product_id, &params.user_id) completes; on
\* success the estimator is called
EstimateGetById(r) ==
    /\ pc[r] = "estimate_get_by_id"
    /\ \E fail \in BOOLEAN :
          LET res == IF fail THEN Err(DatabaseError)
                     ELSE ProductGetById(products, params[r].product_id, params[r].user_id)
          IN  /\ calls' = [calls EXCEPT ![r] = Append(@, Call("product.get_by_id", <<params[r].product_id, params[r].user_id>>, res.ok))]
              /\ IF res.ok
                 THEN /\ existing' = [existing EXCEPT ![r] = res.value]
                      /\ pc' = [pc EXCEPT ![r] = "estimate"]
                      /\ UNCHANGED result
                 ELSE /\ result' = [result EXCEPT ![r] = Err(MapGetByIdError(res.err))]
                      /\ pc' = [pc EXCEPT ![r] = "done"]
                      /\ UNCHANGED existing
    /\ UNCHANGED <<products, shopping_items, params, updated_product, item, log, pre_products, pre_shopping, clock, usable, fetched, ranked>>

\* estimator.estimate_expiry_date(..) completes; with a date the product read
\* by the lookup gets the estimate and its save is issued, without one the
\* product is returned as read
EstimateAnswered(r) ==
    /\ pc[r] = "estimate"
    /\ \E estimate \in Estimates, now \in Times :
          /\ calls' = [calls EXCEPT ![r] = Append(@, EstimateCall(existing[r]))]
          /\ IF estimate = None
             THEN /\ log' = [log EXCEPT ![r] = Append(@, "info: Expiry estimation complete")]
                  /\ result' = [result EXCEPT ![r] = Ok(existing[r])]
                  /\ pc' = [pc EXCEPT ![r] = "done"]
                  /\ UNCHANGED updated_product
             ELSE /\ updated_product' = [updated_product EXCEPT ![r] = WithEstimate(existing[r], estimate[1], now)]
                  /\ pc' = [pc EXCEPT ![r] = "estimate_save"]
                  /\ UNCHANGED <<log, result>>
    /\ UNCHANGED <<products, shopping_items, params, existing, item, pre_products, pre_shopping, clock, usable, fetched, ranked>>

\* repository.save(&product).await? completes
EstimateSave(r) ==
    /\ pc[r] = "estimate_save"
    /\ \E fail \in BOOLEAN :
          /\ calls' = [calls EXCEPT ![r] = Append(@, Call("product.save", <<updated_product[r].id>>, ~fail))]
          /\ IF fail
             THEN /\ result' = [result EXCEPT ![r] = Err(<<"Repository", DatabaseError>>)]
                  /\ UNCHANGED <<products, log>>
             ELSE /\ products' = ProductSave(products, updated_product[r])
                  /\ log' = [log EXCEPT ![r] = Append(@, "info: Expiry estimation complete")]
                  /\ result' = [result EXCEPT ![r] = Ok(updated_product[r])]
    /\ pc' = [pc EXCEPT ![r] = "done"]
    /\ UNCHANGED <<shopping_items, params, existing, updated_product, item, pre_products, pre_shopping, clock, usable, fetched, ranked>>

(***************************************************************************)
(* Specification: one task estimates the expiry of a product while another *)
(* task updates product 1 for its owner; the steps of the two interleave   *)
(* at every repository and estimator call.                                 *)
(***************************************************************************)
\* the task that estimates and the task that updates
Estimating == {1}
Updating == {2}

\* the commands of the interleaved update: the owner renames product 1 or
\* moves it into or out of Finished
EstimateUpdateParams ==
    { p \in UpdateProductParams :
        /\ p.id = 1
        /\ p.user_id = "A"
        /\ p.name \in {OldName, NewName}
        /\ p.status \in {"Opened", "Finished"}
        /\ p.location = None /\ p.quantity = None
        /\ p.expiry_date = None /\ p.estimated_expiry_date = None
        /\ p.outcome = None }

EstimateUpdateStart(r) == UpdateStartFrom(r, EstimateUpdateParams)

EstimateNext ==
    \/ \E r \in Estimating :
        \/ EstimateStart(r)
        \/ EstimateGetById(r)
        \/ EstimateAnswered(r)
        \/ EstimateSave(r)
        \/ UpdateReturn(r)
    \/ \E r \in Updating :
        \/ EstimateUpdateStart(r)
        \/ UpdateGetById(r)
        \/ UpdateProductSave(r)
        \/ ConcurrentFindByProductId(r)
        \/ SyncShoppingSave(r)
        \/ SyncDeleteByProductId(r)
        \/ UpdateReturn(r)

EstimateSpec == StoreInit /\ [][EstimateNext]_vars

(***************************************************************************)
(* C29: the save of EstimateExpiry changes only estimated_expiry_date and  *)
(* updated_at of the persisted product, also when a Product update of the  *)
(* same product has completed since its lookup: name, status, location,    *)
(* quantity, expiry_date and outcome are the persisted values afterwards   *)
(* as before; when the estimator returns no date nothing is saved.         *)
(***************************************************************************)
\* the columns EstimateExpiry is to leave alone
KeptColumns(row) ==
    IF row = NoRow THEN NoRow
    ELSE [name |-> row.name, status |-> row.status, location |-> row.location,
          quantity |-> row.quantity, expiry_date |-> row.expiry_date,
          outcome |-> row.outcome, user_id |-> row.user_id,
          created_at |-> row.created_at]

C29_EstimateKeepsOtherColumns ==
    [][\A r \in Estimating :
          /\ (pc[r] = "estimate_save" /\ pc'[r] = "done") =>
                \A i \in ProductIds : KeptColumns(products'[i]) = KeptColumns(products[i])
          /\ (pc[r] = "estimate" /\ pc'[r] = "done") => products' = products]_vars

(***************************************************************************)
(* C30: a Product operation invoked for one owner (get, update, delete,    *)
(* estimate-expiry) leaves every Product and every ShoppingItem stored for *)
(* another owner as it was.                                                *)
(***************************************************************************)
\* the request in slot r is one of the product operations that carry an owner
OwnerScoped(r) ==
    \/ Ran(r, "info: Updating product")
    \/ Ran(r, "info: Deleting product")
    \/ Ran(r, "info: Fetching product by id")
    \/ Ran(r, "info: Estimating expiry date")

\* rows of the table stored for another owner than user_id
RowsOfOthers(table, user_id) ==
    {i \in DOMAIN table : IF table[i] = NoRow THEN FALSE
                          ELSE table[i].user_id # user_id}

C30_OwnerIsolation ==
    \A r \in Reqs :
        OwnerScoped(r) =>
            /\ \A i \in RowsOfOthers(pre_products[r], params[r].user_id) :
                  products[i] = pre_products[r][i]
            /\ \A i \in RowsOfOthers(pre_shopping[r], params[r].user_id) :
                  shopping_items[i] = pre_shopping[r][i]

====
